--------------------------- MODULE ActuatorService ----------------------------
(***************************************************************************)
(* The PWM actuator of the firmware: ActuatorService on top of the         *)
(* ServoActuator component and the BspPwm driver, all of whose state is    *)
(* touched from SensorTask alone.  The service is modelled from a          *)
(* successful ActuatorService_Init on: when it fails App_Init fails and no *)
(* task ever calls the service.                                            *)
(*                                                                         *)
(* Absolute ticks never matter, only unsigned differences with s_now_ms;   *)
(* the two differences the code forms are kept, modulo the tick width:     *)
(*   commandAge = s_now_ms - s_last_command_ms                             *)
(*   updateAge  = s_now_ms - s_servo.last_update_ms                        *)
(*                                                                         *)
(* A refused request returns an error and changes nothing; it is the       *)
(* absence of a step.  Statistics counters are left out.                   *)
(***************************************************************************)
EXTENDS Integers

CONSTANTS
  TickMod,                            (* 2^32: the tick counter's modulus  *)
  CommandTimeout,                     (* ACTUATOR_COMMAND_TIMEOUT_MS       *)
  MaxUpdateDt,                        (* SERVO_MAX_UPDATE_DT_MS            *)
  SlewUsPerS,                         (* max_slew_us_per_s                 *)
  PulseMin, PulseCenter, PulseMax,    (* pulse window of s_default_config  *)
  AngleMin, AngleCenter, AngleMax,    (* its angle window                  *)
  PeriodUs,                           (* longest pulse the timer accepts   *)
  HalMayFail,                         (* may HAL_TIM_PWM_Start/Stop fail?  *)
  ProtocolOwners,                     (* owners a command may name         *)
  Pulses, Angles, Ticks               (* inputs: requests and time steps   *)

ASSUME ActuatorAssumption ==
  /\ TickMod \in Nat \ {0} /\ CommandTimeout \in 1..(TickMod - 1)
  /\ MaxUpdateDt \in Nat \ {0} /\ SlewUsPerS \in Nat \ {0}
  /\ PulseMin \in Nat /\ PulseCenter \in Nat /\ PulseMax \in Nat
  /\ PulseMin < PulseCenter /\ PulseCenter < PulseMax
  /\ AngleMin \in Int /\ AngleCenter \in Int /\ AngleMax \in Int
  /\ AngleMin < AngleCenter /\ AngleCenter < AngleMax
  /\ PeriodUs \in Nat /\ PulseCenter <= PeriodUs
  /\ HalMayFail \in BOOLEAN
  /\ ProtocolOwners \subseteq {"LOCAL", "SERIAL", "MQTT"}
  /\ Pulses \subseteq Nat /\ Angles \subseteq Int /\ Ticks \subseteq Nat

Owners == {"NONE", "LOCAL", "SERIAL", "MQTT", "CONTROL_LOOP"}
Modes  == {"DISABLED", "MANUAL", "ATTITUDE_HOLD"}
ServoStates == {"DISABLED", "READY", "MOVING", "HOLDING", "FAULT"}
Window == PulseMin..PulseMax

VARIABLES
  mode, owner, armed,   (* s_mode, s_owner, s_armed                        *)
  latched,              (* s_timeout_latched                               *)
  commandAge,           (* s_now_ms - s_last_command_ms                    *)
  servo,                (* s_servo.state                                   *)
  current, target,      (* s_servo.current_pulse_us, .target_pulse_us      *)
  updateAge,            (* s_now_ms - s_servo.last_update_ms               *)
  pwmRunning, pwmPulse  (* s_running and the compare value of BspPwm       *)

authority == <<mode, owner, armed>>
servoVars == <<current, target, updateAge>>
actuatorVars ==
  <<authority, latched, commandAge, servo, servoVars, pwmRunning, pwmPulse>>

-------------------------------------------------------------------------------
(* Pulse and angle arithmetic of servo_actuator.c.                         *)

Advance(age, dt) == (age + dt) % TickMod

\* Integer interpolation; both differences are positive for the one
\* configuration the code has, so C's division and \div agree.
Interpolate(x, x0, x1, y0, y1) == y0 + ((x - x0) * (y1 - y0)) \div (x1 - x0)

Clamp(v, low, high) == IF v < low THEN low ELSE IF v > high THEN high ELSE v

\* Faulty variant: the upper end of the window is not enforced.
PulseClampedBelow(p) == IF p < PulseMin THEN PulseMin ELSE p

ClampedPulse(p) == Clamp(p, PulseMin, PulseMax)

MapAngleToPulse(a) ==
  LET angle == Clamp(a, AngleMin, AngleMax)
  IN  IF angle <= AngleCenter
      THEN Interpolate(angle, AngleMin, AngleCenter, PulseMin, PulseCenter)
      ELSE Interpolate(angle, AngleCenter, AngleMax, PulseCenter, PulseMax)

\* Faulty variants (see "mutants"): the step rounds to nothing; a long pause
\* is followed by one long jump.
StepWithoutMinimum(dt) ==
  (SlewUsPerS * (IF dt > MaxUpdateDt THEN MaxUpdateDt ELSE dt)) \div 1000
StepWithoutDtCap(dt) ==
  LET step == (SlewUsPerS * dt) \div 1000 IN IF step = 0 THEN dt ELSE step

\* How far the pulse may travel dt after the last update: at least 1 us as
\* soon as time has passed, however slow the slew.
MaxStep(dt) ==
  LET capped == IF dt > MaxUpdateDt THEN MaxUpdateDt ELSE dt
      step   == (SlewUsPerS * capped) \div 1000
  IN  IF capped # 0 /\ step = 0 THEN 1 ELSE step

Approach(from, to, step) ==
  IF from < to THEN (IF from + step < to THEN from + step ELSE to)
  ELSE IF from > to THEN (IF step < from - to THEN from - step ELSE to)
  ELSE from

-------------------------------------------------------------------------------
(* The BspPwm driver.  pwmPulse is the compare value, pwmRunning s_running. *)

PulseFits(p) == p <= PeriodUs

PwmStopResults ==
  IF pwmRunning /\ HalMayFail THEN BOOLEAN ELSE {TRUE}

PwmStop(ok) ==
  /\ ok \in PwmStopResults
  /\ pwmRunning' = (pwmRunning /\ ~ok)

PwmStartResults ==
  IF ~pwmRunning /\ HalMayFail THEN BOOLEAN ELSE {TRUE}

-------------------------------------------------------------------------------
(* ActuatorService.                                                        *)

ActuatorInit ==
  /\ mode = "DISABLED" /\ owner = "NONE" /\ armed = FALSE /\ latched = FALSE
  /\ commandAge = 0 /\ updateAge = 0
  /\ servo = "DISABLED" /\ current = PulseCenter /\ target = PulseCenter
  /\ pwmRunning = FALSE /\ pwmPulse = PulseCenter

Revoke == mode' = "DISABLED" /\ owner' = "NONE" /\ armed' = FALSE

\* EnterFault ignores whether the output could be stopped.
EnterFault ==
  /\ \E ok \in BOOLEAN : PwmStop(ok)
  /\ servo' = "FAULT"
  /\ Revoke

\* Faulty variant: the result of BspPwm_Stop is not looked at.
SafeStopIgnoringResult(ok) ==
  PwmStop(ok) /\ Revoke /\ latched' = FALSE /\ servo' = "DISABLED"

\* The body Disarm and EmergencyStop share: stop the output, or fault when
\* it does not stop (EnterFault then tries to stop it once more).
SafeStop(ok) ==
  IF ok
  THEN PwmStop(TRUE) /\ Revoke /\ latched' = FALSE /\ servo' = "DISABLED"
  ELSE FALSE \in PwmStopResults /\ EnterFault /\ UNCHANGED latched

\* The part of Arm that runs once the request is admitted.
StartManual(o) ==
  /\ current' = PulseCenter /\ target' = PulseCenter /\ updateAge' = 0
  /\ pwmPulse' = PulseCenter
  /\ \E ok \in PwmStartResults :
       IF ok
       THEN /\ pwmRunning' = TRUE
            /\ owner' = o /\ mode' = "MANUAL" /\ armed' = TRUE
            /\ latched' = FALSE /\ commandAge' = 0
            /\ servo' = "READY"
       ELSE EnterFault /\ UNCHANGED <<latched, commandAge>>

\* Faulty variants: a latched FAULT does not block Arm; an armed actuator is
\* armed again by whoever asks.
ArmDespiteFault(o) == ~armed /\ StartManual(o)
ArmOverOwner(o) == servo # "FAULT" /\ StartManual(o)

\* A second Arm by the same owner succeeds and changes nothing.
Arm(o) == ~armed /\ servo # "FAULT" /\ StartManual(o)

\* Any valid owner may disarm; FAULT is cleared when the output stops.
Disarm(ok) == SafeStop(ok) /\ UNCHANGED <<commandAge, servoVars, pwmPulse>>

EmergencyStop(ok) ==
  SafeStop(ok) /\ UNCHANGED <<commandAge, servoVars, pwmPulse>>

MayCommand(o) == armed /\ owner = o /\ mode = "MANUAL"

\* Faulty variant: a command after a timeout does not rearm the watchdog.
RetargetKeepingLatch(p) ==
  target' = p /\ commandAge' = 0 /\ UNCHANGED latched

\* An accepted manual target restarts the command watchdog.
Retarget(p) == target' = p /\ commandAge' = 0 /\ latched' = FALSE

SetTargetAngle(o, a) ==
  /\ MayCommand(o)
  /\ Retarget(MapAngleToPulse(a))
  /\ UNCHANGED <<authority, servo, current, updateAge, pwmRunning, pwmPulse>>

SetRawPulse(o, p) ==
  /\ MayCommand(o)
  /\ Retarget(ClampedPulse(p))
  /\ UNCHANGED <<authority, servo, current, updateAge, pwmRunning, pwmPulse>>

Center(o) == SetRawPulse(o, PulseCenter)

\* The manual owner hands the servo to the attitude control loop.
BeginAttitudeControl(o) ==
  /\ MayCommand(o)
  /\ Retarget(PulseCenter)
  /\ owner' = "CONTROL_LOOP" /\ mode' = "ATTITUDE_HOLD"
  /\ UNCHANGED <<armed, servo, current, updateAge, pwmRunning, pwmPulse>>

ControlPulseAccepted ==
  armed /\ owner = "CONTROL_LOOP" /\ mode = "ATTITUDE_HOLD"

SetControlPulse(p) ==
  /\ ControlPulseAccepted
  /\ target' = ClampedPulse(p) /\ commandAge' = 0
  /\ UNCHANGED <<authority, latched, servo, current, updateAge,
                 pwmRunning, pwmPulse>>

\* The tail of Update: the watchdog may recentre the target, then the servo
\* moves one slew-limited step and the result is written to the timer.
DriveServo(elapsed) ==
  LET timedOut == mode = "MANUAL" /\ commandAge' >= CommandTimeout /\ ~latched
      goal     == IF timedOut THEN PulseCenter ELSE target
      pulse    == Approach(current, goal, MaxStep(elapsed))
  IN  /\ target' = goal
      /\ latched' = (latched \/ timedOut)
      /\ current' = pulse
      /\ updateAge' = 0
      /\ \/ /\ PulseFits(pulse)
            /\ pwmPulse' = pulse
            /\ servo' = IF pulse = goal THEN "HOLDING" ELSE "MOVING"
            /\ UNCHANGED <<authority, pwmRunning>>
         \/ /\ ~PulseFits(pulse)
            /\ EnterFault
            /\ UNCHANGED pwmPulse

HoldLost(online, stale) == mode = "ATTITUDE_HOLD" /\ (~online \/ stale)

\* One actuator pass of SensorTask, dt after the previous one: an application
\* fault, a held attitude whose motion data is gone, nothing to drive, or one
\* servo step.
Update(dt, appFault, online, stale) ==
  /\ commandAge' = Advance(commandAge, dt)
  /\ \/ /\ appFault
        /\ EnterFault
        /\ updateAge' = Advance(updateAge, dt)
        /\ UNCHANGED <<latched, current, target, pwmPulse>>
     \/ /\ ~appFault /\ HoldLost(online, stale)
        /\ \E ok \in BOOLEAN : SafeStop(ok)
        /\ updateAge' = Advance(updateAge, dt)
        /\ UNCHANGED <<current, target, pwmPulse>>
     \/ /\ ~appFault /\ ~HoldLost(online, stale) /\ ~armed
        /\ updateAge' = Advance(updateAge, dt)
        /\ UNCHANGED <<authority, latched, servo, current, target,
                       pwmRunning, pwmPulse>>
     \/ /\ ~appFault /\ ~HoldLost(online, stale) /\ armed
        /\ DriveServo(Advance(updateAge, dt))

\* What an owner may ask for; the hand-over is the control loop's to ask.
ManualCommand(o) ==
  \/ Arm(o)
  \/ Center(o)
  \/ \E a \in Angles : SetTargetAngle(o, a)
  \/ \E p \in Pulses : SetRawPulse(o, p)

ActuatorNext ==
  \/ \E o \in ProtocolOwners : ManualCommand(o) \/ BeginAttitudeControl(o)
  \/ \E ok \in BOOLEAN : Disarm(ok) \/ EmergencyStop(ok)
  \/ \E p \in Pulses : SetControlPulse(p)
  \/ \E dt \in Ticks, appFault, online, stale \in BOOLEAN :
       Update(dt, appFault, online, stale)

ActuatorSpec == ActuatorInit /\ [][ActuatorNext]_actuatorVars

\* SensorTask runs its actuator pass every cycle and the tick advances in
\* between; nothing else is promised, no command ever has to arrive.
TimePasses ==
  \E dt \in Ticks \ {0}, appFault, online, stale \in BOOLEAN :
    Update(dt, appFault, online, stale)

FairActuatorSpec == ActuatorSpec /\ WF_actuatorVars(TimePasses)

-------------------------------------------------------------------------------
(* Properties.                                                             *)

\* Every variable keeps its type, and no target, servo position or compare
\* value ever leaves the calibrated pulse window.
ActuatorTypeOK ==
  /\ mode \in Modes /\ owner \in Owners /\ armed \in BOOLEAN
  /\ latched \in BOOLEAN /\ servo \in ServoStates
  /\ commandAge \in 0..(TickMod - 1) /\ updateAge \in 0..(TickMod - 1)
  /\ current \in Window /\ target \in Window
  /\ pwmRunning \in BOOLEAN /\ pwmPulse \in Window

\* Armed, owned and in a mode are one and the same; only the control loop
\* holds the attitude, and only while holding does it own the servo.
AuthorityAgrees ==
  /\ armed <=> owner # "NONE"
  /\ armed <=> mode # "DISABLED"
  /\ owner = "CONTROL_LOOP" <=> mode = "ATTITUDE_HOLD"

\* The pin is driven exactly while somebody is armed, the one exception being
\* a FAULT whose stop did not take effect; the compare register then follows
\* the servo position.
OutputAuthority ==
  /\ AuthorityAgrees
  /\ armed => /\ pwmRunning
              /\ servo \in {"READY", "MOVING", "HOLDING"}
              /\ pwmPulse = current
  /\ pwmRunning => armed \/ servo = "FAULT"

\* A manual target nobody refreshed for the command timeout is the centre, at
\* whatever point the unsigned tick difference is read.
StaleManualTargetIsCentred ==
  mode = "MANUAL" /\ (latched \/ commandAge >= CommandTimeout)
    => target = PulseCenter

\* The FAULT latch is left only by a stop that took effect, never straight
\* into an armed state.
FaultLeftOnlyStopped ==
  [][servo = "FAULT" /\ servo' # "FAULT"
       => servo' = "DISABLED" /\ ~pwmRunning' /\ ~armed']_actuatorVars

\* No owner takes the servo from another: ownership is released first, except
\* for the owner's own hand-over to the control loop.
OwnerNotPreempted ==
  [][owner # "NONE" /\ owner' # owner
       => owner' = "NONE" \/ (owner' = "CONTROL_LOOP" /\ mode = "MANUAL")
     ]_actuatorVars

Promise == INSTANCE SafeOutput WITH
  Low <- PulseMin, Centre <- PulseCenter, High <- PulseMax,
  MaxJump <- MaxStep(MaxUpdateDt), on <- pwmRunning, pulse <- pwmPulse

\* The pin keeps the SafeOutput promise: it starts at the centre, stays in the
\* window and, while running, never jumps further than one capped slew step.
KeepsSafeOutput == Promise!Spec

\* Once the watchdog fired and nobody commands, the pulse reaches the centre.
AbandonedServoRecentres ==
  mode = "MANUAL" /\ latched
    ~> pwmPulse = PulseCenter \/ ~latched \/ mode # "MANUAL"
===============================================================================

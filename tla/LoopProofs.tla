------------------------------ MODULE LoopProofs ------------------------------
(***************************************************************************)
(* Proofs about the SensorTask cycle, for every pulse window, timeout, set *)
(* of axes and behaviour of the motion feed that the assumptions on the    *)
(* constants admit.  What the actuator keeps on its own is taken from      *)
(* ActuatorProofs.                                                         *)
(***************************************************************************)
EXTENDS SafetyLoop, ActuatorProofs

\* What actuator and control loop keep between any two operations: a held
\* servo has a control loop, the loop's zero is of its axis, and a loop that
\* is not active has not seen its warm-up samples and holds the centre.
HoldInv ==
  /\ ActuatorInv /\ ControlTypeOK
  /\ mode = "ATTITUDE_HOLD" => enabled
  /\ ZeroMatchesAxis
  /\ warmup = WarmupSamples => active
  /\ WarmupHoldsCentre

\* The types of what MotionFeed provides.
FeedTypeOK ==
  /\ motionState \in MotionStates
  /\ hasFrame \in BOOLEAN /\ calibrated \in BOOLEAN /\ attitudeValid \in BOOLEAN
  /\ frameAge \in 0..FrameAgeCap

\* What holds across the phases: after the control pass an enabled loop holds
\* the servo, no manual session has a loop, and a FAULT halts the cycle.
LoopInv ==
  /\ HoldInv /\ FeedTypeOK
  /\ phase \in Phases /\ elapsed \in CycleTimes \cup {0}
  /\ appState \in {"RUNNING", "DEGRADED", "FAULT"} /\ halted \in BOOLEAN
  /\ phase \in {"recovery", "command"} /\ enabled => mode = "ATTITUDE_HOLD"
  /\ HoldIsFresh
  /\ mode = "MANUAL" => ~enabled
  /\ appState = "FAULT" => halted

-------------------------------------------------------------------------------
(* The operations of the control loop.                                     *)

\* The values Release and Enable write are in their types.
LEMMA ReleasedTypes ==
  /\ "NONE" \in Owners \ {"CONTROL_LOOP"} /\ 0 \in Nat /\ 0 \in 0..WarmupSamples
  /\ \A a \in Axes : a \in Axes \cup {"NONE"}
BY ControlAssumption DEF Owners

\* A stop, effective or not, leaves nobody holding.
LEMMA StopEndsHold ==
  ASSUME NEW ok \in BOOLEAN, Disarm(ok) \/ EmergencyStop(ok)
  PROVE  mode' = "DISABLED" /\ owner' = "NONE" /\ ~armed' /\ target' = target
BY DEF Disarm, EmergencyStop, SafeStop, Revoke, EnterFault, servoVars

\* A stop keeps the actuator's own invariant.
LEMMA StopKeepsActuator ==
  ASSUME ActuatorInv, NEW ok \in BOOLEAN, Disarm(ok) \/ EmergencyStop(ok)
  PROVE  ActuatorInv'
BY StepKeepsInv DEF ActuatorNext

\* Leaving the loop, for whatever reason and whether the output stopped.
LEMMA EnterSafeStateKeepsInv ==
  ASSUME HoldInv, NEW fault \in Faults, EnterSafeState(fault)
  PROVE  HoldInv' /\ ~enabled' /\ lastFault' = fault
<1>1. PICK ok \in BOOLEAN : EmergencyStop(ok)
  BY DEF EnterSafeState
<1>2. ActuatorInv' /\ mode' = "DISABLED"
  BY <1>1, StopEndsHold, StopKeepsActuator DEF HoldInv
<1>3. /\ enabled' = FALSE /\ requestOwner' = "NONE" /\ usedAge' = 0
      /\ warmup' = 0 /\ active' = FALSE /\ lastFault' = fault
      /\ UNCHANGED <<axis, gains, zeroAxis>>
  BY DEF EnterSafeState, Release, settings
<1>4. ControlTypeOK'
  BY <1>3, ReleasedTypes, Zenon DEF HoldInv, ControlTypeOK
<1>5. QED
  BY <1>2, <1>3, <1>4, ControlAssumption DEF HoldInv, ZeroMatchesAxis, WarmupHoldsCentre

\* Disable and the requested emergency stop: a failed stop keeps the loop
\* enabled over a servo that nobody holds.
LEMMA StopRequestKeepsInv ==
  ASSUME HoldInv, EmergencyStopRequest \/ (\E o \in ProtocolOwners : Disable(o))
  PROVE  HoldInv'
<1>1. PICK ok \in BOOLEAN : Disarm(ok) \/ EmergencyStop(ok)
  BY DEF EmergencyStopRequest, Disable
<1>2. ActuatorInv' /\ mode' = "DISABLED"
  BY <1>1, StopEndsHold, StopKeepsActuator DEF HoldInv
<1>3. /\ \/ enabled' = FALSE /\ requestOwner' = "NONE" /\ usedAge' = 0
            /\ warmup' = 0 /\ active' = FALSE
         \/ UNCHANGED <<enabled, requestOwner, usedAge, warmup, active>>
      /\ lastFault' \in {lastFault, "NONE"}
      /\ UNCHANGED <<axis, gains, zeroAxis>>
  BY DEF EmergencyStopRequest, Disable, Release, settings
<1>4. ControlTypeOK'
  <2>1. lastFault' \in Faults
    BY <1>3 DEF HoldInv, ControlTypeOK, Faults
  <2>2. CASE /\ enabled' = FALSE /\ requestOwner' = "NONE" /\ usedAge' = 0
             /\ warmup' = 0 /\ active' = FALSE
    BY <1>3, <2>1, <2>2, ReleasedTypes, Zenon DEF HoldInv, ControlTypeOK
  <2>3. CASE UNCHANGED <<enabled, requestOwner, usedAge, warmup, active>>
    BY <1>3, <2>1, <2>3 DEF HoldInv, ControlTypeOK
  <2>4. QED
    BY <1>3, <2>2, <2>3
<1>5. QED
  BY <1>2, <1>3, <1>4, ControlAssumption DEF HoldInv, ZeroMatchesAxis, WarmupHoldsCentre

\* Enabling starts from the centre with nothing seen yet.
LEMMA EnableKeepsInv ==
  ASSUME HoldInv, NEW o \in ProtocolOwners, NEW a \in Axes, NEW age, NEW running, NEW online,
         FeedTypeOK, Enable(o, a, Frame, age, running, online)
  PROVE  HoldInv'
<1>1. /\ BeginAttitudeControl(o)
      /\ enabled' = TRUE /\ requestOwner' = o /\ usedAge' = frameAge
      /\ warmup' = 0 /\ active' = FALSE /\ lastFault' = "NONE"
      /\ axis' = a /\ zeroAxis' = a /\ gains' = gains
  BY DEF Enable, Frame
<1>2. ActuatorInv'
  BY <1>1, StepKeepsInv DEF ActuatorNext, HoldInv
<1>3. target' = PulseCenter
  BY <1>1 DEF BeginAttitudeControl, Retarget
<1>4. o \in Owners \ {"CONTROL_LOOP"}
  BY ActuatorAssumption DEF Owners
<1>5. frameAge \in Nat
  BY FeedAssumption DEF FeedTypeOK
<1>6. ControlTypeOK'
  <2>1. "NONE" \in Faults
    BY DEF Faults
  <2>2. QED
    BY <1>1, <1>4, <1>5, <2>1, ReleasedTypes, Zenon DEF HoldInv, ControlTypeOK
<1>7. QED
  BY <1>1, <1>2, <1>3, <1>6, ControlAssumption DEF HoldInv, ZeroMatchesAxis, WarmupHoldsCentre

\* The control loop's own pulses: only the target moves.
LEMMA ControlPulseKeepsHold ==
  ASSUME ActuatorInv, NEW p \in Window, SetControlPulse(p)
  PROVE  /\ ActuatorInv' /\ UNCHANGED <<mode, owner, armed>>
         /\ target' = p /\ mode = "ATTITUDE_HOLD"
<1>1. p \in Nat /\ ClampedPulse(p) = p
  BY ActuatorAssumption DEF Window, ClampedPulse, Clamp
<1>2. ActuatorInv'
  BY <1>1, ControlPulseKeepsInv
<1>3. QED
  BY <1>1, <1>2 DEF SetControlPulse, ControlPulseAccepted, authority

\* A new zero is of the axis in use and restarts from the centre.
LEMMA SetZeroKeepsInv ==
  ASSUME HoldInv, FeedTypeOK, NEW o \in ProtocolOwners, NEW age, SetZero(o, Frame, age)
  PROVE  HoldInv'
<1>1. CASE enabled /\ ~ControlPulseAccepted
  <2>1. EnterSafeState("ACTUATOR")
    BY <1>1 DEF SetZero
  <2>2. QED
    BY <2>1, EnterSafeStateKeepsInv DEF Faults
<1>2. CASE ~(enabled /\ ~ControlPulseAccepted)
  <2>1. /\ zeroAxis' = axis /\ warmup' = 0 /\ active' = FALSE
        /\ usedAge' = IF enabled THEN frameAge ELSE 0
        /\ IF enabled THEN SetControlPulse(PulseCenter) ELSE UNCHANGED actuatorVars
        /\ UNCHANGED <<enabled, requestOwner, lastFault, axis, gains>>
    BY <1>2 DEF SetZero, Frame, settings
  <2>2. /\ ActuatorInv'
        /\ mode' = mode
        /\ mode' = "ATTITUDE_HOLD" => target' = PulseCenter
    <3>1. CASE enabled
      <4>1. PulseCenter \in Window
        BY ActuatorAssumption DEF Window
      <4>2. QED
        BY <2>1, <3>1, <4>1, ControlPulseKeepsHold DEF HoldInv
    <3>2. CASE ~enabled
      <4>1. UNCHANGED actuatorVars /\ mode # "ATTITUDE_HOLD"
        BY <2>1, <3>2 DEF HoldInv
      <4>2. QED
        BY <4>1, StepKeepsInv DEF HoldInv, actuatorVars, authority
    <3>3. QED
      BY <3>1, <3>2
  <2>3. ControlTypeOK'
    <3>1. usedAge' \in Nat
      BY <2>1, FeedAssumption DEF FeedTypeOK
    <3>2. QED
      BY <2>1, <3>1, ReleasedTypes, Zenon DEF HoldInv, ControlTypeOK
  <2>4. QED
    BY <2>1, <2>2, <2>3, ControlAssumption DEF HoldInv, ZeroMatchesAxis, WarmupHoldsCentre
<1> QED
  BY <1>1, <1>2

\* Axis, direction and gains change only while the loop is off.
LEMMA SettingKeepsInv ==
  ASSUME HoldInv,
         (\E a \in Axes : SetAxis(a)) \/ (\E g \in Gains : SetGains(g))
  PROVE  HoldInv'
<1>1. /\ UNCHANGED actuatorVars /\ ~enabled /\ axis' \in Axes /\ gains' \in Gains
      /\ UNCHANGED <<enabled, requestOwner, usedAge, warmup, active, lastFault, zeroAxis>>
  BY DEF SetAxis, SetGains, HoldInv, ControlTypeOK
<1>2. ActuatorInv' /\ mode' = mode /\ target' = target
  BY <1>1, StepKeepsInv DEF HoldInv, actuatorVars, authority, servoVars
<1>3. ControlTypeOK'
  BY <1>1 DEF HoldInv, ControlTypeOK
<1>4. QED
  BY <1>1, <1>2, <1>3 DEF HoldInv, ZeroMatchesAxis, WarmupHoldsCentre

\* Nothing changes but the ages, the counts and the fault that is reported.
LEMMA FrameSeenKeepsInv ==
  ASSUME HoldInv, UNCHANGED actuatorVars, UNCHANGED <<axis, gains, zeroAxis>>,
         UNCHANGED <<enabled, requestOwner>>,
         usedAge' \in Nat, lastFault' \in Faults,
         \/ UNCHANGED <<warmup, active>>
         \/ /\ warmup < WarmupSamples /\ warmup' = warmup + 1
            /\ active' = (active \/ warmup' = WarmupSamples)
  PROVE  HoldInv'
<1>1. ActuatorInv' /\ mode' = mode /\ target' = target
  BY StepKeepsInv DEF HoldInv, actuatorVars, authority, servoVars
<1>0. warmup \in 0..WarmupSamples /\ active \in BOOLEAN /\ WarmupSamples \in Nat
      /\ (warmup = WarmupSamples => active)
  BY ControlAssumption DEF HoldInv, ControlTypeOK
<1>2. /\ warmup' \in 0..WarmupSamples /\ active' \in BOOLEAN
      /\ active => active'
      /\ warmup' = WarmupSamples => active'
  <2>1. CASE UNCHANGED <<warmup, active>>
    BY <1>0, <2>1
  <2>2. CASE /\ warmup < WarmupSamples /\ warmup' = warmup + 1
             /\ active' = (active \/ warmup' = WarmupSamples)
    <3>1. warmup' \in 0..WarmupSamples
      BY <1>0, <2>2
    <3>2. QED
      BY <1>0, <2>2, <3>1, Zenon
  <2>3. QED
    BY <2>1, <2>2
<1>3. ControlTypeOK'
  BY <1>2 DEF HoldInv, ControlTypeOK
<1>4. QED
  BY <1>1, <1>2, <1>3 DEF HoldInv, ZeroMatchesAxis, WarmupHoldsCentre

\* The cyclic update: afterwards the loop is on only over a held servo.
LEMMA ControlUpdateKeepsInv ==
  ASSUME HoldInv, FeedTypeOK, NEW app, NEW online, ControlUpdate(Frame, app, online)
  PROVE  HoldInv' /\ (enabled' => mode' = "ATTITUDE_HOLD")
<1> DEFINE fault == UpdateFault(Frame, app, online)
<1>1. fault \in Faults
  BY DEF UpdateFault, Faults
<1>2. fault = "NONE" => mode = "ATTITUDE_HOLD"
  BY DEF UpdateFault, HoldInv, ActuatorInv, OutputAuthority, AuthorityAgrees
<1>3. frameAge \in Nat /\ Frame.age = frameAge
  BY FeedAssumption DEF FeedTypeOK, Frame
<1>4. \/ /\ ~enabled \/ (fault = "NONE" /\ Frame.age = usedAge)
         /\ UNCHANGED <<actuatorVars, controlVars>>
      \/ enabled /\ fault # "NONE" /\ EnterSafeState(fault)
      \/ enabled /\ fault = "NONE" /\ UseFrame(Frame)
  BY DEF ControlUpdate
<1> HIDE DEF fault
<1>5. CASE /\ ~enabled \/ (fault = "NONE" /\ Frame.age = usedAge)
           /\ UNCHANGED <<actuatorVars, controlVars>>
  <2>1. /\ UNCHANGED actuatorVars /\ UNCHANGED <<axis, gains, zeroAxis>>
        /\ UNCHANGED <<enabled, requestOwner>> /\ UNCHANGED <<warmup, active>>
        /\ usedAge' \in Nat /\ lastFault' \in Faults
    BY <1>5 DEF controlVars, settings, HoldInv, ControlTypeOK
  <2>2. HoldInv'
    BY <2>1, FrameSeenKeepsInv
  <2>3. QED
    BY <1>2, <1>5, <2>1, <2>2 DEF actuatorVars, authority
<1>6. CASE enabled /\ fault # "NONE" /\ EnterSafeState(fault)
  BY <1>1, <1>6, EnterSafeStateKeepsInv
<1>7. CASE enabled /\ fault = "NONE" /\ UseFrame(Frame)
  <2>1. CASE /\ UNCHANGED actuatorVars /\ UNCHANGED <<axis, gains, zeroAxis>>
             /\ UNCHANGED <<enabled, requestOwner>>
             /\ usedAge' = frameAge /\ lastFault' \in {lastFault, "INVALID_DT"}
             /\ \/ UNCHANGED <<warmup, active>>
                \/ /\ warmup < WarmupSamples /\ warmup' = warmup + 1
                   /\ active' = (active \/ warmup' = WarmupSamples)
    <3>1. usedAge' \in Nat /\ lastFault' \in Faults
      BY <1>3, <2>1 DEF HoldInv, ControlTypeOK, Faults
    <3>2. HoldInv'
      BY <2>1, <3>1, FrameSeenKeepsInv
    <3>3. QED
      BY <1>2, <1>7, <2>1, <3>2 DEF actuatorVars, authority
  <2>2. CASE warmup = WarmupSamples /\ Steer(Frame)
    <3>1. CASE EnterSafeState("ACTUATOR") \/ EnterSafeState("NONFINITE")
      BY <3>1, EnterSafeStateKeepsInv DEF Faults
    <3>2. ASSUME NEW p \in Window, SetControlPulse(p),
                 usedAge' = frameAge, lastFault' = "NONE",
                 UNCHANGED <<enabled, requestOwner, warmup, active, axis, gains, zeroAxis>>
          PROVE  HoldInv' /\ (enabled' => mode' = "ATTITUDE_HOLD")
      <4>1. ActuatorInv' /\ mode' = "ATTITUDE_HOLD"
        BY <3>2, ControlPulseKeepsHold DEF HoldInv
      <4>2. ControlTypeOK'
        BY <1>3, <3>2 DEF HoldInv, ControlTypeOK, Faults
      <4>3. active'
        BY <2>2, <3>2 DEF HoldInv
      <4>4. QED
        BY <1>7, <3>2, <4>1, <4>2, <4>3 DEF HoldInv, ZeroMatchesAxis, WarmupHoldsCentre
    <3>3. QED
      BY <1>3, <2>2, <3>1, <3>2 DEF Steer, settings
  <2>3. QED
    BY <1>3, <1>7, <2>1, <2>2 DEF UseFrame, settings
<1> QED
  BY <1>4, <1>5, <1>6, <1>7

-------------------------------------------------------------------------------
(* The cycle.                                                              *)

\* Whatever the motion feed does, its outputs keep their types.
LEMMA FeedKeepsTypes ==
  ASSUME FeedTypeOK, (\E d \in CycleTimes : RunMotion(d)) \/ StartCalibration
  PROVE  FeedTypeOK'
<1>1. ASSUME NEW d \in CycleTimes PROVE Grown(d) \in 0..FrameAgeCap
  BY FeedAssumption DEF FeedTypeOK, Grown
<1>2. ASSUME NEW d \in CycleTimes, NoFrame(d) PROVE FeedTypeOK'
  BY <1>1, <1>2 DEF FeedTypeOK, NoFrame, MotionStates
<1>3. ASSUME NEW d \in CycleTimes, NewFrame(d) PROVE FeedTypeOK'
  BY <1>3, FeedAssumption DEF FeedTypeOK, NewFrame
<1>4. CASE StartCalibration
  BY <1>4 DEF FeedTypeOK, StartCalibration, MotionStates
<1> QED
  BY <1>2, <1>3, <1>4 DEF RunMotion

\* Unchanged outputs keep them too.
LEMMA FeedStutter ==
  ASSUME FeedTypeOK, UNCHANGED feedVars
  PROVE  FeedTypeOK'
BY DEF FeedTypeOK, feedVars

\* A step that leaves actuator and control loop alone.
LEMMA HoldStutter ==
  ASSUME HoldInv, UNCHANGED <<actuatorVars, controlVars>>
  PROVE  HoldInv' /\ mode' = mode /\ enabled' = enabled
<1>1. ActuatorInv' /\ mode' = mode /\ target' = target
  BY StepKeepsInv DEF HoldInv, actuatorVars, authority, servoVars
<1>2. UNCHANGED <<enabled, requestOwner, usedAge, warmup, active, lastFault, axis, gains, zeroAxis>>
  BY DEF controlVars, settings
<1> QED
  BY <1>1, <1>2 DEF HoldInv, ControlTypeOK, ZeroMatchesAxis, WarmupHoldsCentre

\* Only the age of the frame in use moves with the motion pipeline.
LEMMA MotionPhaseKeepsHold ==
  ASSUME HoldInv, MotionPhase
  PROVE  HoldInv' /\ mode' = mode /\ enabled' = enabled
<1>1. /\ UNCHANGED actuatorVars
      /\ UNCHANGED <<enabled, requestOwner, warmup, active, lastFault, axis, gains, zeroAxis>>
      /\ \E d \in CycleTimes : usedAge' = IF enabled THEN usedAge + d ELSE 0
  BY DEF MotionPhase, settings
<1>2. usedAge' \in Nat
  BY <1>1, FeedAssumption DEF HoldInv, ControlTypeOK
<1>3. ActuatorInv' /\ mode' = mode /\ target' = target
  BY <1>1, StepKeepsInv DEF HoldInv, actuatorVars, authority, servoVars
<1> QED
  BY <1>1, <1>2, <1>3 DEF HoldInv, ControlTypeOK, ZeroMatchesAxis, WarmupHoldsCentre

\* Every command a requester may send.
LEMMA RequestKeepsHold ==
  ASSUME HoldInv, FeedTypeOK, Request
  PROVE  HoldInv'
<1>1. ASSUME NEW o \in ProtocolOwners, ManualCommand(o), UNCHANGED controlVars
      PROVE  HoldInv'
  <2>1. ActuatorInv'
    BY <1>1, StepKeepsInv DEF ActuatorNext, HoldInv
  <2>2. UNCHANGED <<enabled, requestOwner, usedAge, warmup, active, lastFault, axis, gains, zeroAxis>>
    BY <1>1 DEF controlVars, settings
  <2>3. mode' # "ATTITUDE_HOLD"
    BY <1>1
       DEF ManualCommand, Arm, StartManual, EnterFault, Revoke, Center, SetTargetAngle,
           SetRawPulse, MayCommand, authority
  <2>4. QED
    BY <2>1, <2>2, <2>3 DEF HoldInv, ControlTypeOK, ZeroMatchesAxis, WarmupHoldsCentre
<1>2. ASSUME NEW ok \in BOOLEAN, Disarm(ok), UNCHANGED controlVars
      PROVE  HoldInv'
  <2>1. ActuatorInv' /\ mode' = "DISABLED"
    BY <1>2, StopEndsHold, StopKeepsActuator DEF HoldInv
  <2>2. UNCHANGED <<enabled, requestOwner, usedAge, warmup, active, lastFault, axis, gains, zeroAxis>>
    BY <1>2 DEF controlVars, settings
  <2>3. QED
    BY <2>1, <2>2 DEF HoldInv, ControlTypeOK, ZeroMatchesAxis, WarmupHoldsCentre
<1>3. ASSUME NEW o \in ProtocolOwners, ControlRequest(o)
      PROVE  HoldInv'
  BY <1>3, EnableKeepsInv, SetZeroKeepsInv, StopRequestKeepsInv, SettingKeepsInv
     DEF ControlRequest
<1>4. CASE EmergencyStopRequest
  BY <1>4, StopRequestKeepsInv
<1> QED
  BY <1>1, <1>2, <1>3, <1>4 DEF Request, ActuatorRequest

\* A manual session is opened only where no loop is enabled.
LEMMA RequestLeavesManual ==
  ASSUME HoldInv, FeedTypeOK, Request, enabled => mode = "ATTITUDE_HOLD"
  PROVE  mode' = "MANUAL" => ~enabled'
<1>1. ASSUME NEW o \in ProtocolOwners, ManualCommand(o), UNCHANGED controlVars
      PROVE  ~enabled'
  <2>1. mode # "ATTITUDE_HOLD"
    BY <1>1
       DEF ManualCommand, Arm, Center, SetTargetAngle, SetRawPulse, MayCommand,
           HoldInv, ActuatorInv, OutputAuthority, AuthorityAgrees
  <2>2. QED
    BY <1>1, <2>1 DEF controlVars
<1>2. ASSUME NEW ok \in BOOLEAN, Disarm(ok) \/ EmergencyStop(ok)
      PROVE  mode' # "MANUAL"
  BY <1>2, StopEndsHold
<1>3. ASSUME NEW o \in ProtocolOwners, NEW a \in Axes,
             Enable(o, a, Frame, 0, appState = "RUNNING", motionState = "RUNNING")
      PROVE  mode' # "MANUAL"
  BY <1>3 DEF Enable, BeginAttitudeControl
<1>4. ASSUME NEW o \in ProtocolOwners, SetZero(o, Frame, 0)
      PROVE  mode' = "MANUAL" => ~enabled'
  <2>1. CASE EnterSafeState("ACTUATOR")
    BY <2>1, EnterSafeStateKeepsInv DEF Faults
  <2>2. CASE enabled /\ SetControlPulse(PulseCenter)
    BY <2>2 DEF SetControlPulse, ControlPulseAccepted, authority
  <2>3. CASE ~enabled /\ UNCHANGED enabled
    BY <2>3
  <2>4. QED
    BY <1>4, <2>1, <2>2, <2>3 DEF SetZero
<1>5. ASSUME (\E a \in Axes : SetAxis(a)) \/ (\E g \in Gains : SetGains(g))
      PROVE  ~enabled'
  BY <1>5 DEF SetAxis, SetGains
<1> QED
  BY <1>1, <1>2, <1>3, <1>4, <1>5
     DEF Request, ActuatorRequest, ControlRequest, Disable, EmergencyStopRequest

\* The actuator pass: a hold that goes on was not lost, and its target stays.
LEMMA ActuatorPhaseKeepsHold ==
  ASSUME LoopInv, ActuatorPhase
  PROVE  /\ HoldInv' /\ enabled' = enabled
         /\ mode' = "ATTITUDE_HOLD" => MotionOnline /\ ~MotionStale
         /\ mode' \in {mode, "DISABLED"}
<1>1. /\ Update(elapsed, appState = "FAULT", MotionOnline, MotionStale)
      /\ UNCHANGED controlVars
  BY DEF ActuatorPhase
<1>2. elapsed \in Nat /\ MotionOnline \in BOOLEAN /\ MotionStale \in BOOLEAN
  BY FeedAssumption DEF LoopInv, MotionOnline, MotionStale, FeedTypeOK
<1>3. ActuatorInv'
  BY <1>1, <1>2, UpdateKeepsInv DEF LoopInv, HoldInv
<1>4. UNCHANGED <<enabled, requestOwner, usedAge, warmup, active, lastFault, axis, gains, zeroAxis>>
  BY <1>1 DEF controlVars, settings
<1>5. mode' = "ATTITUDE_HOLD"
        => mode = "ATTITUDE_HOLD" /\ target' = target /\ MotionOnline /\ ~MotionStale
  <2>1. ASSUME NEW online \in BOOLEAN, NEW stale \in BOOLEAN, NEW fault \in BOOLEAN,
               Update(elapsed, fault, online, stale), mode' = "ATTITUDE_HOLD"
        PROVE  mode = "ATTITUDE_HOLD" /\ target' = target /\ online /\ ~stale
    <3>1. ~EnterFault /\ ~(\E ok \in BOOLEAN : SafeStop(ok))
      BY <2>1 DEF EnterFault, SafeStop, Revoke
    <3>2. ~HoldLost(online, stale) /\ mode' = mode
      BY <2>1, <3>1 DEF Update, DriveServo, authority
    <3>3. target' = target
      BY <2>1, <3>1, <3>2 DEF Update, DriveServo
    <3>4. QED
      BY <2>1, <3>2, <3>3 DEF HoldLost
  <2>2. QED
    BY <1>1, <1>2, <2>1
<1>6. mode' \in {mode, "DISABLED"}
  <2>1. ASSUME NEW online, NEW stale, NEW fault, Update(elapsed, fault, online, stale)
        PROVE  mode' \in {mode, "DISABLED"}
    BY <2>1 DEF Update, EnterFault, SafeStop, Revoke, DriveServo, authority
  <2>2. QED
    BY <1>1, <2>1
<1>7. HoldInv'
  BY <1>3, <1>4, <1>5
     DEF LoopInv, HoldInv, ControlTypeOK, ZeroMatchesAxis, WarmupHoldsCentre
<1> QED
  BY <1>4, <1>5, <1>6, <1>7

\* The cycle starts with nobody holding.
LEMMA LoopInitInv == LoopInit => LoopInv
<1> SUFFICES ASSUME LoopInit PROVE LoopInv
  OBVIOUS
<1>1. ActuatorInv /\ mode = "DISABLED"
  BY InitInv DEF LoopInit, ActuatorInit
<1>2. /\ enabled = FALSE /\ requestOwner = "NONE" /\ usedAge = 0
      /\ warmup = 0 /\ active = FALSE /\ lastFault = "NONE"
      /\ axis \in Axes /\ gains \in Gains /\ zeroAxis = "NONE"
  BY DEF LoopInit, ControlInit
<1>3. "NONE" \in Faults /\ "NONE" \in Axes \cup {"NONE"} /\ WarmupSamples # 0
  BY ControlAssumption DEF Faults
<1>4. ControlTypeOK
  BY <1>2, <1>3, ReleasedTypes, Zenon DEF ControlTypeOK
<1>5. HoldInv
  BY <1>1, <1>2, <1>3, <1>4 DEF HoldInv, ZeroMatchesAxis, WarmupHoldsCentre
<1>6. FeedTypeOK
  <2>1. 0 \in 0..FrameAgeCap /\ "CALIBRATING" \in MotionStates
    BY FeedAssumption DEF MotionStates
  <2>2. QED
    BY <2>1, Zenon DEF LoopInit, FeedInit, FeedTypeOK
<1>7. /\ phase = "motion" /\ elapsed = 0 /\ appState = "RUNNING" /\ halted = FALSE
  BY DEF LoopInit
<1>8. QED
  BY <1>1, <1>5, <1>6, <1>7 DEF LoopInv, HoldIsFresh, Phases

\* Every phase of the cycle, and what other tasks do in between, keeps it.
LEMMA LoopStepKeepsInv ==
  ASSUME LoopInv, [LoopNext]_loopVars
  PROVE  LoopInv'
<1>1. CASE MotionPhase
  <2>1. HoldInv' /\ mode' = mode /\ enabled' = enabled
    BY <1>1, MotionPhaseKeepsHold DEF LoopInv
  <2>2. FeedTypeOK'
    BY <1>1, FeedKeepsTypes DEF MotionPhase, LoopInv
  <2>3. phase' = "control" /\ halted' = halted /\ ~halted /\ elapsed' \in CycleTimes
        /\ appState' \in {appState, "RUNNING", "DEGRADED"}
    BY <1>1 DEF MotionPhase, Step
  <2>4. QED
    BY <2>1, <2>2, <2>3 DEF LoopInv, HoldIsFresh, Phases
<1>2. CASE ControlPhase
  <2>1. HoldInv' /\ (enabled' => mode' = "ATTITUDE_HOLD")
    BY <1>2, ControlUpdateKeepsInv DEF ControlPhase, LoopInv
  <2>2. phase' = "recovery" /\ UNCHANGED <<feedVars, halted, elapsed, appState>>
    BY <1>2 DEF ControlPhase, Step
  <2>3. FeedTypeOK'
    BY <2>2, FeedStutter DEF LoopInv
  <2>4. QED
    BY <2>1, <2>2, <2>3 DEF LoopInv, HoldIsFresh, Phases
<1>3. CASE RecoveryPhase
  <2>1. HoldInv' /\ mode' = mode /\ enabled' = enabled
    BY <1>3, HoldStutter DEF RecoveryPhase, LoopInv
  <2>2. FeedTypeOK'
    BY <1>3, FeedKeepsTypes, FeedStutter DEF RecoveryPhase, LoopInv
  <2>3. phase = "recovery" /\ phase' = "command" /\ UNCHANGED <<halted, elapsed, appState>>
    BY <1>3 DEF RecoveryPhase, Step
  <2>4. QED
    BY <2>1, <2>2, <2>3 DEF LoopInv, HoldIsFresh, Phases
<1>4. CASE CommandPhase
  <2>1. HoldInv'
    BY <1>4, RequestKeepsHold, HoldStutter DEF CommandPhase, LoopInv
  <2>2. FeedTypeOK'
    BY <1>4, FeedKeepsTypes, FeedStutter DEF CommandPhase, LoopInv
  <2>3. phase' = "actuator" /\ UNCHANGED <<halted, elapsed, appState>>
    BY <1>4 DEF CommandPhase, Step
  <2>4. mode' = "MANUAL" => ~enabled'
    <3>1. phase = "command" /\ (enabled => mode = "ATTITUDE_HOLD")
      BY <1>4 DEF CommandPhase, Step, LoopInv
    <3>2. CASE Request
      BY <3>1, <3>2, RequestLeavesManual DEF LoopInv
    <3>3. CASE UNCHANGED <<actuatorVars, controlVars>>
      BY <3>3, HoldStutter DEF LoopInv
    <3>4. QED
      BY <1>4, <3>2, <3>3 DEF CommandPhase
  <2>5. QED
    BY <2>1, <2>2, <2>3, <2>4 DEF LoopInv, HoldIsFresh, Phases
<1>5. CASE ActuatorPhase
  <2>1. /\ HoldInv' /\ enabled' = enabled
        /\ mode' = "ATTITUDE_HOLD" => MotionOnline /\ ~MotionStale
        /\ mode' \in {mode, "DISABLED"}
    BY <1>5, ActuatorPhaseKeepsHold
  <2>2. phase' = "motion" /\ elapsed' = 0 /\ UNCHANGED <<feedVars, halted, appState>>
    BY <1>5 DEF ActuatorPhase, Step
  <2>3. FeedTypeOK'
    BY <2>2, FeedStutter DEF LoopInv
  <2>4. HoldIsFresh'
    <3>1. SUFFICES ASSUME mode' = "ATTITUDE_HOLD"
                   PROVE  hasFrame' /\ motionState' # "DEGRADED" /\ frameAge' <= MotionTimeout
      BY DEF HoldIsFresh
    <3>2. hasFrame /\ motionState # "DEGRADED" /\ ~(frameAge > MotionTimeout)
      BY <2>1, <3>1 DEF MotionOnline, MotionStale
    <3>3. frameAge \in Nat /\ MotionTimeout \in Nat
      BY FeedAssumption, ControlAssumption DEF LoopInv, FeedTypeOK
    <3>4. QED
      BY <2>2, <3>2, <3>3 DEF feedVars
  <2>5. QED
    BY <2>1, <2>2, <2>3, <2>4 DEF LoopInv, Phases
<1>6. CASE OtherTaskDegrades \/ FatalHook \/ UNCHANGED loopVars
  <2>1. /\ UNCHANGED <<actuatorVars, controlVars>> /\ UNCHANGED feedVars
        /\ UNCHANGED <<phase, elapsed>>
        /\ appState' \in {appState, "DEGRADED", "FAULT"} /\ halted' \in {halted, TRUE}
        /\ appState' = "FAULT" => halted'
    BY <1>6 DEF OtherTaskDegrades, FatalHook, loopVars, LoopInv
  <2>2. HoldInv' /\ mode' = mode /\ enabled' = enabled
    BY <2>1, HoldStutter DEF LoopInv
  <2>3. FeedTypeOK'
    BY <2>1, FeedStutter DEF LoopInv
  <2>4. QED
    BY <2>1, <2>2, <2>3 DEF LoopInv, HoldIsFresh, feedVars
<1> QED
  BY <1>1, <1>2, <1>3, <1>4, <1>5, <1>6 DEF LoopNext, Cycle

-------------------------------------------------------------------------------
(* The theorems.                                                           *)

\* LoopInv holds in every state of every behaviour of the cycle.
THEOREM LoopInvHolds == LoopSpec => []LoopInv
BY LoopInitInv, LoopStepKeepsInv, PTL DEF LoopSpec

\* Every variable of the cycle and its services keeps its type.
THEOREM LoopTypeCorrect == LoopSpec => []LoopTypeOK
<1>1. LoopInv => LoopTypeOK
  BY DEF LoopInv, HoldInv, ActuatorInv, FeedTypeOK, LoopTypeOK
<1> QED
  BY <1>1, LoopInvHolds, PTL

\* The servo never holds an attitude unsupervised, although stops may fail.
THEOREM HoldSupervised == LoopSpec => []HoldIsSupervised
<1>1. LoopInv => HoldIsSupervised
  BY DEF LoopInv, HoldInv, HoldIsSupervised
<1> QED
  BY <1>1, LoopInvHolds, PTL

\* No cycle ends holding the attitude on stale motion.
THEOREM HoldFresh == LoopSpec => []HoldIsFresh
<1>1. LoopInv => HoldIsFresh
  BY DEF LoopInv
<1> QED
  BY <1>1, LoopInvHolds, PTL

\* Until the warm-up samples are seen the servo is sent to the centre.
THEOREM WarmupCentred == LoopSpec => []WarmupHoldsCentre
<1>1. LoopInv => WarmupHoldsCentre
  BY DEF LoopInv, HoldInv
<1> QED
  BY <1>1, LoopInvHolds, PTL

\* The error is measured from a zero of the axis in use.
THEOREM ZeroAgrees == LoopSpec => []ZeroMatchesAxis
<1>1. LoopInv => ZeroMatchesAxis
  BY DEF LoopInv, HoldInv
<1> QED
  BY <1>1, LoopInvHolds, PTL

\* What the actuator promises on its own it also promises inside the cycle.
THEOREM LoopKeepsActuator ==
  LoopSpec => [](OutputAuthority /\ StaleManualTargetIsCentred)
<1>1. LoopInv => OutputAuthority /\ StaleManualTargetIsCentred
  BY DEF LoopInv, HoldInv, ActuatorInv
<1> QED
  BY <1>1, LoopInvHolds, PTL

\* A control pass whose sensor is degraded leaves the loop and says why.
THEOREM SensorLossReported == LoopSpec => SensorLossIsReported
<1>1. ASSUME LoopInv, [LoopNext]_loopVars, phase = "control", phase' # phase,
             enabled, motionState = "DEGRADED"
      PROVE  ~enabled' /\ lastFault' = "SENSOR_OFFLINE"
  <2>1. ControlPhase
    BY <1>1
       DEF LoopNext, Cycle, MotionPhase, RecoveryPhase, CommandPhase, ActuatorPhase,
           Step, OtherTaskDegrades, FatalHook, loopVars
  <2>2. UpdateFault(Frame, appState, motionState \in {"CALIBRATING", "RUNNING"})
          = "SENSOR_OFFLINE"
    BY <1>1, <2>1 DEF ControlPhase, Step, LoopInv, UpdateFault
  <2>3. EnterSafeState("SENSOR_OFFLINE")
    BY <1>1, <2>1, <2>2 DEF ControlPhase, ControlUpdate
  <2>4. QED
    BY <2>3 DEF EnterSafeState, Release
<1> QED
  BY <1>1, LoopInvHolds, PTL DEF LoopSpec, SensorLossIsReported

\* A control pass never touches the output of a manual session.
THEOREM ManualUntouched == LoopSpec => ManualLeftAlone
<1>1. ASSUME LoopInv, [LoopNext]_loopVars, phase = "control", mode = "MANUAL"
      PROVE  UNCHANGED actuatorVars
  <2>1. CASE ControlPhase
    <3>1. ~enabled
      BY <1>1 DEF LoopInv
    <3>2. QED
      BY <2>1, <3>1 DEF ControlPhase, ControlUpdate
  <2>2. CASE OtherTaskDegrades \/ FatalHook \/ UNCHANGED loopVars
    BY <2>2 DEF OtherTaskDegrades, FatalHook, loopVars
  <2>3. QED
    BY <1>1, <2>1, <2>2
       DEF LoopNext, Cycle, MotionPhase, RecoveryPhase, CommandPhase, ActuatorPhase, Step
<1> QED
  BY <1>1, LoopInvHolds, PTL DEF LoopSpec, ManualLeftAlone
===============================================================================

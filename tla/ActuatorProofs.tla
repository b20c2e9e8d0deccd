---------------------------- MODULE ActuatorProofs ----------------------------
(***************************************************************************)
(* Proofs about ActuatorService for every window, slew rate, timer period, *)
(* time step and HAL behaviour the assumption on the constants admits.     *)
(***************************************************************************)
EXTENDS ActuatorService, TLAPS

(* Arithmetic.                                                             *)

\* Integer division never exceeds a bound its numerator respects.
LEMMA QuotientBound ==
  ASSUME NEW n \in Nat, NEW d \in Nat \ {0}, NEW k \in Nat, n <= k * d
  PROVE  n \div d \in 0..k
<1> DEFINE q == n \div d
<1>1. q \in Int /\ n = d * q + (n % d) /\ n % d \in 0..(d - 1)
  BY Z3
<1>2. q >= 0
  <2>1. SUFFICES ASSUME q <= -1 PROVE FALSE
    BY <1>1
  <2>2. d * q <= d * (-1)
    BY <1>1, <2>1
  <2>3. QED
    BY <1>1, <2>2
<1>3. q <= k
  <2>1. SUFFICES ASSUME q >= k + 1 PROVE FALSE
    BY <1>1
  <2>2. d * q >= d * (k + 1)
    BY <1>1, <2>1
  <2>3. d * (k + 1) = k * d + d
    OBVIOUS
  <2>4. QED
    BY <1>1, <2>2, <2>3
<1> QED
  BY <1>1, <1>2, <1>3

\* Interpolation inside an interval stays inside the image interval.
LEMMA InterpolateBound ==
  ASSUME NEW x \in Int, NEW x0 \in Int, NEW x1 \in Int, x0 < x1, x0 <= x, x <= x1,
         NEW y0 \in Int, NEW y1 \in Int, y0 <= y1
  PROVE  Interpolate(x, x0, x1, y0, y1) \in y0..y1
<1> DEFINE n == (x - x0) * (y1 - y0)
           d == x1 - x0
           k == y1 - y0
<1>1. /\ x - x0 \in Nat /\ k \in Nat /\ d \in Nat \ {0}
      /\ x - x0 <= d
  OBVIOUS
<1>2. n \in Nat /\ n <= k * d
  <2>1. ASSUME NEW a \in Nat, NEW b \in Nat, NEW c \in Nat, a <= c
        PROVE  a * b \in Nat /\ a * b <= b * c
    BY <2>1
  <2>2. QED
    BY <1>1, <2>1
<1>3. n \div d \in 0..k
  <2> HIDE DEF n, d, k
  <2> QED
    BY <1>1, <1>2, QuotientBound
<1>4. QED
  BY <1>1, <1>3 DEF Interpolate

\* ServoActuator_MapAngleToPulse maps every angle into the pulse window.
LEMMA MappedAngleInWindow ==
  ASSUME NEW a \in Int
  PROVE  MapAngleToPulse(a) \in Window
<1> DEFINE angle == Clamp(a, AngleMin, AngleMax)
<1>1. angle \in Int /\ AngleMin <= angle /\ angle <= AngleMax
  BY ActuatorAssumption DEF Clamp
<1> HIDE DEF angle
<1>2. CASE angle <= AngleCenter
  <2>1. /\ angle \in Int /\ AngleMin \in Int /\ AngleCenter \in Int
        /\ PulseMin \in Int /\ PulseCenter \in Int
        /\ AngleMin < AngleCenter /\ AngleMin <= angle /\ angle <= AngleCenter
        /\ PulseMin <= PulseCenter
    BY <1>1, <1>2, ActuatorAssumption
  <2>2. Interpolate(angle, AngleMin, AngleCenter, PulseMin, PulseCenter)
          \in PulseMin..PulseCenter
    BY <2>1, InterpolateBound, Zenon
  <2>3. QED
    BY <1>2, <2>2, ActuatorAssumption DEF MapAngleToPulse, Window, angle
<1>3. CASE ~(angle <= AngleCenter)
  <2>1. /\ angle \in Int /\ AngleCenter \in Int /\ AngleMax \in Int
        /\ PulseCenter \in Int /\ PulseMax \in Int
        /\ AngleCenter < AngleMax /\ AngleCenter <= angle /\ angle <= AngleMax
        /\ PulseCenter <= PulseMax
    BY <1>1, <1>3, ActuatorAssumption
  <2>2. Interpolate(angle, AngleCenter, AngleMax, PulseCenter, PulseMax)
          \in PulseCenter..PulseMax
    BY <2>1, InterpolateBound, Zenon
  <2>3. QED
    BY <1>3, <2>2, ActuatorAssumption DEF MapAngleToPulse, Window, angle
<1> QED
  BY <1>2, <1>3

\* ServoActuator_SetTargetPulse clamps every request into the pulse window.
LEMMA ClampedPulseInWindow ==
  ASSUME NEW p \in Int
  PROVE  ClampedPulse(p) \in Window
BY ActuatorAssumption DEF ClampedPulse, Clamp, Window

\* No update, however late, moves the servo further than one capped step.
LEMMA StepIsCapped ==
  ASSUME NEW dt \in Nat
  PROVE  /\ MaxStep(dt) \in Nat
         /\ MaxStep(dt) <= MaxStep(MaxUpdateDt)
<1> DEFINE c == IF dt > MaxUpdateDt THEN MaxUpdateDt ELSE dt
<1>1. c \in Nat /\ c <= MaxUpdateDt /\ MaxUpdateDt \in Nat \ {0}
      /\ SlewUsPerS \in Nat
  BY ActuatorAssumption
<1>2. /\ SlewUsPerS * c \in Nat /\ SlewUsPerS * MaxUpdateDt \in Nat
      /\ SlewUsPerS * c <= SlewUsPerS * MaxUpdateDt
  <2>1. ASSUME NEW s \in Nat, NEW a \in Nat, NEW b \in Nat, a <= b
        PROVE  s * a \in Nat /\ s * b \in Nat /\ s * a <= s * b
    BY <2>1
  <2>2. QED
    BY <1>1, <2>1
<1>3. /\ (SlewUsPerS * c) \div 1000 \in Nat
      /\ (SlewUsPerS * c) \div 1000 <= (SlewUsPerS * MaxUpdateDt) \div 1000
  <2>1. ASSUME NEW a \in Nat, NEW b \in Nat, a <= b
        PROVE  a \div 1000 \in Nat /\ a \div 1000 <= b \div 1000
    BY <2>1
  <2>2. QED
    BY <1>2, <2>1
<1>4. QED
  BY <1>1, <1>3 DEF MaxStep

\* A slew-limited step stays between its end points and within its length.
LEMMA ApproachBound ==
  ASSUME NEW from \in Int, NEW to \in Int, NEW step \in Nat,
         NEW low \in Int, NEW high \in Int, from \in low..high, to \in low..high
  PROVE  /\ Approach(from, to, step) \in low..high
         /\ Approach(from, to, step) - from <= step
         /\ from - Approach(from, to, step) <= step
BY DEF Approach

\* Tick differences stay tick differences.
LEMMA AdvanceInRange ==
  ASSUME NEW age \in Nat, NEW dt \in Nat
  PROVE  Advance(age, dt) \in 0..(TickMod - 1)
<1>1. age + dt \in Nat /\ TickMod \in Nat \ {0}
  BY ActuatorAssumption
<1>2. QED
  BY <1>1, Z3 DEF Advance

-------------------------------------------------------------------------------
(* The inductive invariant and its consequences.                           *)

\* What the invariants need of each other: a pulse can jump only if the output
\* runs while disarmed, and it runs disarmed only in FAULT, which Arm refuses.
ActuatorInv == ActuatorTypeOK /\ OutputAuthority /\ StaleManualTargetIsCentred

\* The service starts in the invariant.
LEMMA InitInv == ActuatorInit => ActuatorInv
<1> SUFFICES ASSUME ActuatorInit PROVE ActuatorInv
  OBVIOUS
<1>1. 0 \in 0..(TickMod - 1) /\ PulseCenter \in Window
  BY ActuatorAssumption DEF Window
<1>2. ActuatorTypeOK
  BY <1>1, Zenon DEF ActuatorInit, ActuatorTypeOK, Modes, Owners, ServoStates
<1>3. OutputAuthority
  BY Zenon DEF ActuatorInit, OutputAuthority, AuthorityAgrees
<1>4. StaleManualTargetIsCentred
  BY DEF ActuatorInit, StaleManualTargetIsCentred
<1> QED
  BY <1>2, <1>3, <1>4 DEF ActuatorInv

\* EnterFault disarms, and whatever still runs is accounted for by FAULT.
LEMMA EnterFaultKeepsInv ==
  ASSUME ActuatorInv, EnterFault,
         latched' \in BOOLEAN,
         commandAge' \in 0..(TickMod - 1), updateAge' \in 0..(TickMod - 1),
         current' \in Window, target' \in Window, pwmPulse' \in Window
  PROVE  ActuatorInv'
BY DEF ActuatorInv, ActuatorTypeOK, OutputAuthority, AuthorityAgrees,
       StaleManualTargetIsCentred, EnterFault, Revoke, PwmStop, Modes, Owners,
       ServoStates

\* The stop shared by Disarm, EmergencyStop and a lost hold.
LEMMA SafeStopKeepsInv ==
  ASSUME ActuatorInv, NEW ok \in BOOLEAN, SafeStop(ok),
         commandAge' \in 0..(TickMod - 1), updateAge' \in 0..(TickMod - 1),
         UNCHANGED <<current, target, pwmPulse>>
  PROVE  ActuatorInv'
<1>1. /\ current' \in Window /\ target' \in Window /\ pwmPulse' \in Window
      /\ latched' \in BOOLEAN
  BY DEF ActuatorInv, ActuatorTypeOK, SafeStop
<1>2. CASE ok
  <2>1. PwmStop(TRUE) /\ Revoke /\ latched' = FALSE /\ servo' = "DISABLED"
    BY <1>2 DEF SafeStop
  <2>2. pwmRunning' = FALSE
    BY <2>1 DEF PwmStop
  <2>3. QED
    BY <1>1, <2>1, <2>2
       DEF ActuatorInv, ActuatorTypeOK, OutputAuthority, AuthorityAgrees,
           StaleManualTargetIsCentred, Revoke, Modes, Owners, ServoStates
<1>3. CASE ~ok
  BY <1>1, <1>3, EnterFaultKeepsInv DEF SafeStop
<1> QED
  BY <1>2, <1>3

\* A servo step keeps the pulse in the window and in the compare register.
LEMMA DriveServoKeepsInv ==
  ASSUME ActuatorInv, armed, NEW elapsed \in Nat, DriveServo(elapsed),
         commandAge' \in 0..(TickMod - 1)
  PROVE  ActuatorInv'
<1> DEFINE timedOut == mode = "MANUAL" /\ commandAge' >= CommandTimeout /\ ~latched
           goal     == IF timedOut THEN PulseCenter ELSE target
           pulse    == Approach(current, goal, MaxStep(elapsed))
<1>1. /\ target' = goal
      /\ latched' = (latched \/ timedOut)
      /\ current' = pulse
      /\ updateAge' = 0
  BY DEF DriveServo
<1>2. goal \in Window /\ current \in Window
  BY ActuatorAssumption DEF ActuatorInv, ActuatorTypeOK, Window
<1>3. pulse \in Window
  <2> HIDE DEF goal
  <2>1. MaxStep(elapsed) \in Nat
    BY StepIsCapped
  <2>2. /\ current \in Int /\ goal \in Int /\ PulseMin \in Int /\ PulseMax \in Int
        /\ current \in PulseMin..PulseMax /\ goal \in PulseMin..PulseMax
    BY <1>2, ActuatorAssumption DEF Window
  <2> QED
    BY <2>1, <2>2, ApproachBound, Zenon DEF Window
<1>4. latched' \in BOOLEAN
  BY <1>1 DEF ActuatorInv, ActuatorTypeOK
<1>5. 0 \in 0..(TickMod - 1)
  BY ActuatorAssumption
<1>6. CASE PulseFits(pulse)
  <2>1. /\ pwmPulse' = pulse
        /\ servo' \in {"HOLDING", "MOVING"}
        /\ UNCHANGED <<authority, pwmRunning>>
    BY <1>6 DEF DriveServo
  <2>2. ActuatorTypeOK'
    <3> HIDE DEF goal, pulse, timedOut
    <3> QED
      BY <1>1, <1>2, <1>3, <1>4, <1>5, <2>1
         DEF ActuatorInv, ActuatorTypeOK, authority, ServoStates
  <2>3. OutputAuthority'
    <3> HIDE DEF goal, pulse, timedOut
    <3> QED
      BY <1>1, <2>1 DEF ActuatorInv, OutputAuthority, AuthorityAgrees, authority
  <2>4. StaleManualTargetIsCentred'
    BY <1>1, <2>1, ActuatorAssumption
       DEF ActuatorInv, ActuatorTypeOK, StaleManualTargetIsCentred, authority
  <2>5. QED
    BY <2>2, <2>3, <2>4 DEF ActuatorInv
<1>7. CASE ~PulseFits(pulse)
  <2>1. EnterFault /\ UNCHANGED pwmPulse
    BY <1>7 DEF DriveServo
  <2>2. pwmPulse' \in Window
    BY <2>1 DEF ActuatorInv, ActuatorTypeOK
  <2> HIDE DEF goal, pulse, timedOut
  <2>3. QED
    BY <1>1, <1>2, <1>3, <1>4, <1>5, <2>1, <2>2, EnterFaultKeepsInv
<1> QED
  BY <1>6, <1>7

\* A pulse of the control loop is clamped into the window.
LEMMA ControlPulseKeepsInv ==
  ASSUME ActuatorInv, NEW p \in Nat, SetControlPulse(p)
  PROVE  ActuatorInv'
<1>1. ClampedPulse(p) \in Window /\ 0 \in 0..(TickMod - 1)
  BY ClampedPulseInWindow, ActuatorAssumption
<1>2. QED
  BY <1>1, ActuatorAssumption
     DEF ActuatorInv, ActuatorTypeOK, OutputAuthority, AuthorityAgrees, authority,
         StaleManualTargetIsCentred, SetControlPulse, ControlPulseAccepted

\* One actuator pass keeps the invariant, however late it comes.
LEMMA UpdateKeepsInv ==
  ASSUME ActuatorInv, NEW dt \in Nat, NEW appFault \in BOOLEAN, NEW online \in BOOLEAN,
         NEW stale \in BOOLEAN, Update(dt, appFault, online, stale)
  PROVE  ActuatorInv'
<1>1. /\ Advance(commandAge, dt) \in 0..(TickMod - 1)
      /\ Advance(updateAge, dt) \in 0..(TickMod - 1)
  <2>1. commandAge \in Nat /\ updateAge \in Nat
    BY ActuatorAssumption DEF ActuatorInv, ActuatorTypeOK
  <2>2. QED
    BY <2>1, AdvanceInRange, Zenon
<1>2. commandAge' \in 0..(TickMod - 1)
  BY <1>1 DEF Update
<1>3. CASE /\ EnterFault
           /\ updateAge' = Advance(updateAge, dt)
           /\ UNCHANGED <<latched, current, target, pwmPulse>>
  <2>1. /\ latched' \in BOOLEAN /\ current' \in Window /\ target' \in Window
        /\ pwmPulse' \in Window
    BY <1>3 DEF ActuatorInv, ActuatorTypeOK
  <2>2. QED
    BY <1>1, <1>2, <1>3, <2>1, EnterFaultKeepsInv
<1>4. CASE /\ \E ok \in BOOLEAN : SafeStop(ok)
           /\ updateAge' = Advance(updateAge, dt)
           /\ UNCHANGED <<current, target, pwmPulse>>
  BY <1>1, <1>2, <1>4, SafeStopKeepsInv
<1>5. CASE /\ ~armed
           /\ updateAge' = Advance(updateAge, dt)
           /\ UNCHANGED <<authority, latched, servo, current, target,
                          pwmRunning, pwmPulse>>
  BY <1>1, <1>2, <1>5
     DEF ActuatorInv, ActuatorTypeOK, OutputAuthority, AuthorityAgrees,
         StaleManualTargetIsCentred, authority
<1>6. CASE armed /\ DriveServo(Advance(updateAge, dt))
  BY <1>1, <1>2, <1>6, DriveServoKeepsInv
<1>7. QED
  BY <1>3, <1>4, <1>5, <1>6 DEF Update

\* Every operation of the service and every actuator pass keeps the invariant.
LEMMA StepKeepsInv ==
  ASSUME ActuatorInv, [ActuatorNext]_actuatorVars
  PROVE  ActuatorInv'
<1>1. ASSUME UNCHANGED actuatorVars
      PROVE  ActuatorInv'
  BY <1>1 DEF ActuatorInv, ActuatorTypeOK, OutputAuthority, AuthorityAgrees,
              StaleManualTargetIsCentred, actuatorVars, authority, servoVars
<1>2. ASSUME NEW o \in ProtocolOwners, Arm(o)
      PROVE  ActuatorInv'
  <2>1. /\ PulseCenter \in Window /\ 0 \in 0..(TickMod - 1)
        /\ o \in {"LOCAL", "SERIAL", "MQTT"}
    BY ActuatorAssumption DEF Window
  <2>2. /\ current' = PulseCenter /\ target' = PulseCenter /\ updateAge' = 0
        /\ pwmPulse' = PulseCenter
    BY <1>2 DEF Arm, StartManual
  <2>3. CASE EnterFault /\ UNCHANGED <<latched, commandAge>>
    <3>1. latched' \in BOOLEAN /\ commandAge' \in 0..(TickMod - 1)
      BY <2>3 DEF ActuatorInv, ActuatorTypeOK
    <3>2. QED
      BY <2>1, <2>2, <2>3, <3>1, EnterFaultKeepsInv
  <2>4. CASE /\ pwmRunning' = TRUE
             /\ owner' = o /\ mode' = "MANUAL" /\ armed' = TRUE
             /\ latched' = FALSE /\ commandAge' = 0
             /\ servo' = "READY"
    BY <2>1, <2>2, <2>4, ActuatorAssumption
       DEF ActuatorInv, ActuatorTypeOK, OutputAuthority, AuthorityAgrees,
           StaleManualTargetIsCentred, Owners, Modes, ServoStates
  <2>5. QED
    BY <1>2, <2>3, <2>4 DEF Arm, StartManual
<1>3. ASSUME NEW o \in ProtocolOwners, NEW p \in Window, MayCommand(o), Retarget(p),
             UNCHANGED <<authority, servo, current, updateAge, pwmRunning, pwmPulse>>
      PROVE  ActuatorInv'
  <2>1. /\ UNCHANGED <<mode, owner, armed, servo, current, updateAge, pwmRunning, pwmPulse>>
        /\ target' = p /\ commandAge' = 0 /\ latched' = FALSE
    BY <1>3 DEF Retarget, authority
  <2>2. 0 \in 0..(TickMod - 1) /\ ~(0 >= CommandTimeout)
    BY ActuatorAssumption
  <2>3. ActuatorTypeOK'
    BY <2>1, <2>2 DEF ActuatorInv, ActuatorTypeOK
  <2>4. OutputAuthority'
    BY <2>1 DEF ActuatorInv, OutputAuthority, AuthorityAgrees
  <2>5. StaleManualTargetIsCentred'
    BY <2>1, <2>2 DEF StaleManualTargetIsCentred
  <2>6. QED
    BY <2>3, <2>4, <2>5 DEF ActuatorInv
<1>4. ASSUME NEW o \in ProtocolOwners, NEW a \in Angles, SetTargetAngle(o, a)
      PROVE  ActuatorInv'
  <2>1. MapAngleToPulse(a) \in Window
    BY MappedAngleInWindow, ActuatorAssumption
  <2>2. QED
    BY <1>3, <1>4, <2>1 DEF SetTargetAngle
<1>5. ASSUME NEW o \in ProtocolOwners, NEW p \in Nat, SetRawPulse(o, p)
      PROVE  ActuatorInv'
  <2>1. ClampedPulse(p) \in Window
    BY ClampedPulseInWindow
  <2>2. QED
    BY <1>3, <1>5, <2>1 DEF SetRawPulse
<1>6. ASSUME NEW o \in ProtocolOwners, BeginAttitudeControl(o)
      PROVE  ActuatorInv'
  <2>1. PulseCenter \in Window
    BY ActuatorAssumption DEF Window
  <2>2. QED
    <3>1. /\ UNCHANGED <<armed, servo, current, updateAge, pwmRunning, pwmPulse>>
          /\ target' = PulseCenter /\ commandAge' = 0 /\ latched' = FALSE
          /\ owner' = "CONTROL_LOOP" /\ mode' = "ATTITUDE_HOLD"
          /\ armed
      BY <1>6 DEF BeginAttitudeControl, Retarget, MayCommand
    <3>2. 0 \in 0..(TickMod - 1)
      BY ActuatorAssumption
    <3>3. ActuatorTypeOK'
      BY <2>1, <3>1, <3>2 DEF ActuatorInv, ActuatorTypeOK, Owners, Modes
    <3>4. OutputAuthority'
      BY <3>1 DEF ActuatorInv, OutputAuthority, AuthorityAgrees
    <3>5. StaleManualTargetIsCentred'
      BY <3>1 DEF StaleManualTargetIsCentred
    <3>6. QED
      BY <3>3, <3>4, <3>5 DEF ActuatorInv
<1>7. ASSUME NEW ok \in BOOLEAN, Disarm(ok) \/ EmergencyStop(ok)
      PROVE  ActuatorInv'
  <2>1. /\ SafeStop(ok)
        /\ UNCHANGED <<current, target, pwmPulse>>
        /\ commandAge' \in 0..(TickMod - 1) /\ updateAge' \in 0..(TickMod - 1)
    BY <1>7 DEF Disarm, EmergencyStop, servoVars, ActuatorInv, ActuatorTypeOK
  <2>2. QED
    BY <2>1, SafeStopKeepsInv
<1>8. ASSUME NEW p \in Pulses, SetControlPulse(p)
      PROVE  ActuatorInv'
  BY <1>8, ControlPulseKeepsInv, ActuatorAssumption
<1>9. ASSUME NEW dt \in Ticks, NEW appFault \in BOOLEAN, NEW online \in BOOLEAN,
             NEW stale \in BOOLEAN, Update(dt, appFault, online, stale)
      PROVE  ActuatorInv'
  BY <1>9, UpdateKeepsInv, ActuatorAssumption
<1>10. QED
  BY <1>1, <1>2, <1>4, <1>5, <1>6, <1>7, <1>8, <1>9, ActuatorAssumption
     DEF ActuatorNext, ManualCommand, Center

-------------------------------------------------------------------------------
(* The theorems.                                                           *)

\* ActuatorInv holds in every state of every behaviour of the service.
THEOREM InvHolds == ActuatorSpec => []ActuatorInv
BY InitInv, StepKeepsInv, PTL DEF ActuatorSpec

\* Every variable keeps its type, and no target, position or compare value
\* leaves the calibrated window, whatever is requested and however late.
THEOREM TypeCorrect == ActuatorSpec => []ActuatorTypeOK
<1>1. ActuatorInv => ActuatorTypeOK
  BY DEF ActuatorInv
<1> QED
  BY <1>1, InvHolds, PTL

\* The output runs exactly for an armed owner, or in a FAULT not yet stopped.
THEOREM AuthorityHolds == ActuatorSpec => []OutputAuthority
<1>1. ActuatorInv => OutputAuthority
  BY DEF ActuatorInv
<1> QED
  BY <1>1, InvHolds, PTL

\* A manual target older than the command timeout is the centre.
THEOREM WatchdogHolds == ActuatorSpec => []StaleManualTargetIsCentred
<1>1. ActuatorInv => StaleManualTargetIsCentred
  BY DEF ActuatorInv
<1> QED
  BY <1>1, InvHolds, PTL

\* The FAULT latch is left only through a stop that took effect.
THEOREM FaultLatched == ActuatorSpec => FaultLeftOnlyStopped
<1>1. ASSUME ActuatorInv, [ActuatorNext]_actuatorVars,
             servo = "FAULT", servo' # "FAULT"
      PROVE  servo' = "DISABLED" /\ ~pwmRunning' /\ ~armed'
  <2>1. ~armed
    BY <1>1 DEF ActuatorInv, OutputAuthority
  <2>2. ASSUME NEW ok \in BOOLEAN, SafeStop(ok)
        PROVE  servo' = "DISABLED" /\ ~pwmRunning' /\ ~armed'
    BY <1>1, <2>2 DEF SafeStop, PwmStop, Revoke, EnterFault
  <2>3. \E ok \in BOOLEAN : SafeStop(ok)
    <3>1. ActuatorNext
      BY <1>1 DEF actuatorVars
    <3>2. ASSUME NEW o \in ProtocolOwners
          PROVE  ~(ManualCommand(o) \/ BeginAttitudeControl(o))
      BY <1>1, <2>1
         DEF ManualCommand, Arm, Center, BeginAttitudeControl, SetTargetAngle,
             SetRawPulse, MayCommand
    <3>3. ASSUME NEW p \in Pulses
          PROVE  ~SetControlPulse(p)
      BY <2>1 DEF SetControlPulse, ControlPulseAccepted
    <3>4. ASSUME NEW dt \in Ticks, NEW appFault \in BOOLEAN, NEW online \in BOOLEAN,
                 NEW stale \in BOOLEAN, Update(dt, appFault, online, stale)
          PROVE  \E ok \in BOOLEAN : SafeStop(ok)
      BY <1>1, <2>1, <3>4 DEF Update, EnterFault
    <3>5. QED
      BY <3>1, <3>2, <3>3, <3>4 DEF ActuatorNext, Disarm, EmergencyStop
  <2>4. QED
    BY <2>2, <2>3
<1> QED
  BY <1>1, InvHolds, PTL DEF ActuatorSpec, FaultLeftOnlyStopped

\* No owner takes the servo from another one.
THEOREM OwnerHolds == ActuatorSpec => OwnerNotPreempted
<1>1. ASSUME ActuatorInv, [ActuatorNext]_actuatorVars,
             owner # "NONE", owner' # owner
      PROVE  owner' = "NONE" \/ (owner' = "CONTROL_LOOP" /\ mode = "MANUAL")
  <2>1. armed /\ ActuatorNext
    BY <1>1 DEF ActuatorInv, OutputAuthority, AuthorityAgrees, actuatorVars, authority
  <2>2. ASSUME NEW o \in ProtocolOwners, ManualCommand(o) \/ BeginAttitudeControl(o)
        PROVE  owner' = "CONTROL_LOOP" /\ mode = "MANUAL"
    BY <1>1, <2>1, <2>2
       DEF ManualCommand, Arm, Center, BeginAttitudeControl, SetTargetAngle,
           SetRawPulse, MayCommand, authority
  <2>3. ASSUME NEW ok \in BOOLEAN, SafeStop(ok)
        PROVE  owner' = "NONE"
    BY <2>3 DEF SafeStop, Revoke, EnterFault
  <2>4. ASSUME NEW p \in Pulses
        PROVE  ~SetControlPulse(p)
    BY <1>1 DEF SetControlPulse, authority
  <2>5. ASSUME NEW elapsed, DriveServo(elapsed)
        PROVE  owner' = "NONE"
    BY <1>1, <2>5 DEF DriveServo, EnterFault, Revoke, authority
  <2>6. ASSUME NEW dt \in Ticks, NEW appFault \in BOOLEAN, NEW online \in BOOLEAN,
               NEW stale \in BOOLEAN, Update(dt, appFault, online, stale)
        PROVE  owner' = "NONE"
    BY <1>1, <2>3, <2>5, <2>6 DEF Update, EnterFault, Revoke, authority
  <2>7. QED
    BY <2>1, <2>2, <2>3, <2>4, <2>6 DEF ActuatorNext, Disarm, EmergencyStop
<1> QED
  BY <1>1, InvHolds, PTL DEF ActuatorSpec, OwnerNotPreempted

-------------------------------------------------------------------------------
(* The service implements SafeOutput.                                      *)

\* Stopping the output, effective or not, is a SwitchOff or no change.
LEMMA StopKeepsPromise ==
  ASSUME ActuatorInv, NEW ok, PwmStop(ok), UNCHANGED pwmPulse
  PROVE  [Promise!Next]_Promise!vars
<1>1. pwmRunning \in BOOLEAN /\ pwmRunning' \in BOOLEAN
  BY DEF ActuatorInv, ActuatorTypeOK, PwmStop
<1>2. pwmRunning' => pwmRunning
  BY DEF PwmStop
<1> QED
  BY <1>1, <1>2, Zenon DEF Promise!Next, Promise!SwitchOff, Promise!vars

\* A servo step is a Move of at most one capped slew step, or a stop.
LEMMA DriveServoKeepsPromise ==
  ASSUME ActuatorInv, armed, NEW elapsed \in Nat, DriveServo(elapsed)
  PROVE  [Promise!Next]_Promise!vars
<1> DEFINE goal  == target'
           pulse == Approach(current, goal, MaxStep(elapsed))
<1>1. goal \in Window /\ current \in Window /\ pwmRunning /\ pwmPulse = current
  BY ActuatorAssumption
     DEF DriveServo, ActuatorInv, ActuatorTypeOK, OutputAuthority, Window
<1>2. \/ pwmPulse' = pulse /\ UNCHANGED pwmRunning
      \/ EnterFault /\ UNCHANGED pwmPulse
  BY DEF DriveServo
<1> HIDE DEF goal
<1>3. /\ MaxStep(elapsed) \in Nat /\ MaxStep(MaxUpdateDt) \in Nat
      /\ MaxStep(elapsed) <= MaxStep(MaxUpdateDt)
  BY StepIsCapped, ActuatorAssumption
<1>4. /\ current \in Int /\ goal \in Int /\ PulseMin \in Int /\ PulseMax \in Int
      /\ current \in PulseMin..PulseMax /\ goal \in PulseMin..PulseMax
  BY <1>1, ActuatorAssumption DEF Window
<1>5. /\ pulse \in PulseMin..PulseMax
      /\ pulse - current <= MaxStep(elapsed)
      /\ current - pulse <= MaxStep(elapsed)
  BY <1>3, <1>4, ApproachBound, Zenon
<1> HIDE DEF pulse
<1>6. CASE pwmPulse' = pulse /\ UNCHANGED pwmRunning
  <2>1. pwmPulse' - pwmPulse <= MaxStep(MaxUpdateDt)
    BY <1>1, <1>3, <1>4, <1>5, <1>6
  <2>2. pwmPulse - pwmPulse' <= MaxStep(MaxUpdateDt)
    BY <1>1, <1>3, <1>4, <1>5, <1>6
  <2>3. pwmRunning /\ pwmRunning' /\ pwmPulse' \in PulseMin..PulseMax
    BY <1>1, <1>5, <1>6
  <2>4. QED
    BY <2>1, <2>2, <2>3 DEF Promise!Next, Promise!Move
<1>7. CASE EnterFault /\ UNCHANGED pwmPulse
  <2>1. PICK ok \in BOOLEAN : PwmStop(ok)
    BY <1>7 DEF EnterFault
  <2>2. QED
    BY <1>7, <2>1, StopKeepsPromise
<1> QED
  BY <1>2, <1>6, <1>7

\* Whatever the service does, the pin sees a step of SafeOutput or nothing.
LEMMA StepKeepsPromise ==
  ASSUME ActuatorInv, [ActuatorNext]_actuatorVars
  PROVE  [Promise!Next]_Promise!vars
<1>1. ASSUME UNCHANGED <<pwmRunning, pwmPulse>>
      PROVE  [Promise!Next]_Promise!vars
  BY <1>1 DEF Promise!vars
<1>2. ASSUME NEW ok \in BOOLEAN, SafeStop(ok), UNCHANGED pwmPulse
      PROVE  [Promise!Next]_Promise!vars
  <2>1. \E stopped \in BOOLEAN : PwmStop(stopped)
    BY <1>2 DEF SafeStop, EnterFault
  <2>2. QED
    BY <1>2, <2>1, StopKeepsPromise
<1>3. ASSUME EnterFault, UNCHANGED pwmPulse
      PROVE  [Promise!Next]_Promise!vars
  <2>1. \E stopped \in BOOLEAN : PwmStop(stopped)
    BY <1>3 DEF EnterFault
  <2>2. QED
    BY <1>3, <2>1, StopKeepsPromise
<1>4. ASSUME NEW o \in ProtocolOwners, Arm(o)
      PROVE  [Promise!Next]_Promise!vars
  <2>1. ~pwmRunning /\ pwmPulse' = PulseCenter
    BY <1>4 DEF Arm, StartManual, ActuatorInv, OutputAuthority
  <2>2. CASE EnterFault
    <3>1. ~pwmRunning'
      BY <2>1, <2>2 DEF EnterFault, PwmStop
    <3>2. QED
      BY <2>1, <3>1 DEF Promise!Next, Promise!Preset
  <2>3. CASE pwmRunning' = TRUE
    BY <2>1, <2>3 DEF Promise!Next, Promise!SwitchOn
  <2>4. QED
    BY <1>4, <2>2, <2>3 DEF Arm, StartManual
<1>5. ASSUME NEW o \in ProtocolOwners, ManualCommand(o) \/ BeginAttitudeControl(o)
      PROVE  [Promise!Next]_Promise!vars
  BY <1>1, <1>4, <1>5
     DEF ManualCommand, Center, BeginAttitudeControl, SetTargetAngle, SetRawPulse
<1>6. ASSUME NEW ok \in BOOLEAN, Disarm(ok) \/ EmergencyStop(ok)
      PROVE  [Promise!Next]_Promise!vars
  BY <1>2, <1>6 DEF Disarm, EmergencyStop
<1>7. ASSUME NEW dt \in Ticks, NEW appFault \in BOOLEAN, NEW online \in BOOLEAN,
             NEW stale \in BOOLEAN, Update(dt, appFault, online, stale)
      PROVE  [Promise!Next]_Promise!vars
  <2>1. Advance(updateAge, dt) \in Nat
    <3>1. updateAge \in Nat /\ dt \in Nat
      BY ActuatorAssumption DEF ActuatorInv, ActuatorTypeOK
    <3>2. Advance(updateAge, dt) \in 0..(TickMod - 1)
      BY <3>1, AdvanceInRange, Zenon
    <3>3. QED
      BY <3>2, ActuatorAssumption
  <2>2. CASE armed /\ DriveServo(Advance(updateAge, dt))
    BY <2>1, <2>2, DriveServoKeepsPromise
  <2>3. QED
    BY <1>1, <1>2, <1>3, <1>7, <2>2 DEF Update
<1> QED
  BY <1>1, <1>5, <1>6, <1>7 DEF ActuatorNext, SetControlPulse, actuatorVars

\* The actuator service implements SafeOutput: the pin starts at the centre,
\* stays in the window and never jumps further than one capped slew step.
THEOREM OutputIsSafe == ActuatorSpec => KeepsSafeOutput
<1>1. ActuatorInit => Promise!Init
  BY DEF ActuatorInit, Promise!Init
<1> QED
  BY <1>1, StepKeepsPromise, InvHolds, PTL
     DEF ActuatorSpec, KeepsSafeOutput, Promise!Spec
===============================================================================

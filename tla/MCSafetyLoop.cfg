SPECIFICATION LoopSpec
CONSTANTS
  TickMod = 3
  CommandTimeout = 2
  MaxUpdateDt = 1
  SlewUsPerS = 1000
  PulseMin = 1
  PulseCenter = 2
  PulseMax = 3
  AngleMin <- MCAngleMin
  AngleCenter <- MCAngleCenter
  AngleMax <- MCAngleMax
  PeriodUs = 4
  HalMayFail = TRUE
  ProtocolOwners = {"SERIAL", "MQTT"}
  Pulses = {3}
  Angles = {0}
  Ticks = {1}
  MotionTimeout = 2
  MinDt = 1
  MaxDt = 1
  WarmupSamples = 2
  Axes = {ROLL, PITCH}
  Gains = {"factory"}
  CycleTimes = {1, 2}
  MaxQuietAge = 3
  EstimatorGap = 3
  FrameAgeCap = 4
  HooksMayFire = TRUE
SYMMETRY AxisSymmetry
CHECK_DEADLOCK FALSE
INVARIANTS
  LoopTypeOK
  HoldIsSupervised
  HoldIsFresh
  ZeroMatchesAxis
  WarmupHoldsCentre
PROPERTIES
  ManualLeftAlone
  SensorLossIsReported

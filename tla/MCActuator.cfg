SPECIFICATION FairActuatorSpec
CONSTANTS
  TickMod = 12
  CommandTimeout = 4
  MaxUpdateDt = 3
  SlewUsPerS = 700
  PulseMin = 7
  PulseCenter = 10
  PulseMax = 13
  AngleMin <- MCAngleMin
  AngleCenter <- MCAngleCenter
  AngleMax <- MCAngleMax
  PeriodUs = 12
  HalMayFail = TRUE
  ProtocolOwners = {"SERIAL", "MQTT"}
  Pulses = {5, 8, 12, 20}
  Angles <- MCAngles
  Ticks = {0, 1, 3, 6}
INVARIANTS
  ActuatorTypeOK
  OutputAuthority
  StaleManualTargetIsCentred
PROPERTIES
  FaultLeftOnlyStopped
  OwnerNotPreempted
  KeepsSafeOutput
  AbandonedServoRecentres

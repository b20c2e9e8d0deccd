SPECIFICATION FairMotionSpec
CONSTANTS
  TickMod = 12
  CycleTimes = {1, 2}
  Periods = {1, 3}
  DefaultPeriod = 1
  ScanLength = 2
  ScanRetries = 1
  CalibrationSamples = 2
  MaxRejected = 2
  MaxInvalid = 2
  RecoveryPeriod = 3
  MaxQuietAge = 6
  EstimatorGap = 4
  FrameAgeCap = 7
INVARIANTS
  MotionTypeOK
  RunningIsCalibrated
PROPERTIES
  ImplementsFeed
  SettledSensorRuns

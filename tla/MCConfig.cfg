SPECIFICATION ConfigSpec
CONSTANTS
  GenMod = 4
  Periods = {10, 20}
  Axes = {"PITCH"}
  Tunings = {"default", "fine"}
  Leaks = {990}
  BootLeak = 990
  Rounded <- MCRounded
  Configs <- MCConfigs
  Defaults <- MCDefaults
INVARIANTS
  ConfigTypeOK
  NewestIsUnambiguous
  CleanMeansStored
  ModeFollowsStream
  PartialOnlyWhenRefused
PROPERTIES
  RestoreIsWhole
  ImplementsCell

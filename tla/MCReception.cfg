SPECIFICATION LinkSpec
CONSTANTS
  MaxPayload = 1
  Capacity = 6
  QueueLimit = 1
  MaxFrames = 3
  MaxFaults = 1
  MaxOverrun = 2
INVARIANTS
  ReceptionIsResumed
CHECK_DEADLOCK FALSE

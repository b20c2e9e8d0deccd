SPECIFICATION FairLinkSpec
CONSTANTS
  MaxPayload = 1
  Capacity = 6
  QueueLimit = 1
  MaxFrames = 3
  MaxFaults = 1
  MaxOverrun = 2
CONSTRAINT
  NotRaced
INVARIANTS
  LinkTypeOK
  DeliversInOrder
  StaysInStep
  HuntingParserHears
  ResyncIsBounded
PROPERTIES
  EverythingIsServed
CHECK_DEADLOCK FALSE

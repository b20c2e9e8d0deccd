SPECIFICATION GatewaySpec
CONSTANTS
  Ids = {"a", "r"}
  SideEffects = {"a"}
  TypeOf <- MCTypeOf
  Retries = 1
  DeviceQueue = 1
  QueueCapacity = 1
  CacheCapacity = 1
  MaxEvents = 3
INVARIANTS
  GatewayTypeOK
  AtMostOnce
  NeverRunsStale
PROPERTIES
  OneAnswer
  OkMeansDone
  QueueIsServed
  OfflineIsAnnounced

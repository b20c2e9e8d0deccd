SPECIFICATION GatewaySpec
CONSTANTS
  Ids = {"a"}
  SideEffects = {"a"}
  TypeOf <- MCTypeOf
  Retries = 0
  DeviceQueue = 1
  QueueCapacity = 1
  CacheCapacity = 1
  MaxEvents = 2
PROPERTY
  RecoveryRepublishes

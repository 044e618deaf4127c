SPECIFICATION Spec
CONSTANTS
  CacheKeys <- MCCacheKeys
  MaxBytes = 9
  MaxTick = 40
  Hot <- MCHot
  Touches <- MCTouches
  Reads = 5
INVARIANTS GetsAreMisses
CHECK_DEADLOCK FALSE

SPECIFICATION Spec
CONSTANTS
  Keys = {k1, k2}
  Values = {v1}
  Tombstone = tombstone
  MaxLsn = 5
  Torn = torn
  SegmentBytes = 2
  InFlight = 1
  MaxCrashes = 2
  WalFaults = {}
INVARIANTS SealedMaxIsBound TornOnlyInLast SyncedIsReplayable SegmentsInv OrderInv
PROPERTIES ImplementsDurableLog
CHECK_DEADLOCK FALSE

SPECIFICATION Spec
CONSTANTS
  Keys = {k1}
  Values = {}
  Tombstone = tombstone
  MaxLsn = 6
  Torn = torn
  SegmentBytes = 2
  InFlight = 2
  MaxCrashes = 1
  WalFaults = {}
INVARIANTS ActiveNeverDeleted
CHECK_DEADLOCK FALSE

SPECIFICATION Spec
CONSTANTS
  Keys = {k1}
  Values = {v1}
  Tombstone = tombstone
  MaxLsn = 3
  Torn = torn
  SegmentBytes = 1
  InFlight = 2
  MaxCrashes = 2
  WalFaults = {"io_error", "short_write", "power_loss"}
INVARIANTS TypeOK ReplayIsUnambiguous LsnInv
CHECK_DEADLOCK FALSE

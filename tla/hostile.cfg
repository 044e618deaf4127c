SPECIFICATION Spec
CONSTANTS
  Keys = {k1}
  Values = {v1}
  Tombstone = tombstone
  MaxLsn = 2
  MaxBytes = 1
  MaxFrozen = 2
  Writers = {c1, c2}
  Flushers = {c1}
  Readers = {}
  MaxCrashes = 2
  Faults = {"wal_error", "flush_error", "late_error", "dropped_call", "orphan_publish"}
INVARIANTS EngineInv TypeOK LsnUnique TruncateAfterPublish

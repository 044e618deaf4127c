SPECIFICATION Spec
CONSTANTS
  Keys = {k1, k2}
  Values = {v1}
  Tombstone = tombstone
  MaxLsn = 3
  MaxBytes = 2
  MaxFrozen = 2
  Writers = {c1}
  Flushers = {c1}
  Readers = {}
  MaxCrashes = 2
  Faults = {"orphan_publish", "late_error"}
INVARIANTS Durability SkipIsSound
SYMMETRY Symmetry

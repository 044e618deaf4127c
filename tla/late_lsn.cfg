SPECIFICATION Spec
CONSTANTS
  Keys = {k1, k2}
  Values = {v1}
  Tombstone = tombstone
  MaxLsn = 3
  MaxBytes = 1
  MaxFrozen = 1
  Writers = {c1, c2}
  Flushers = {}
  Readers = {}
  MaxCrashes = 0
  Faults = {}
INVARIANTS Durability
SYMMETRY Symmetry

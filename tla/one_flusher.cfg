SPECIFICATION Spec
CONSTANTS
  Keys = {k1, k2}
  Values = {v1}
  Tombstone = tombstone
  MaxLsn = 3
  MaxBytes = 9
  MaxFrozen = 2
  Writers = {c1}
  Flushers = {f1}
  Readers = {r1}
  MaxCrashes = 1
  Faults = {}
INVARIANTS Visibility ReadMatchesRecovery PublishedOnce ReadsAreFresh
PROPERTIES GetNeverGoesBack
SYMMETRY Symmetry

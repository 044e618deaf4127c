SPECIFICATION Spec
CONSTANTS
  Keys = {k1, k2}
  Values = {v1}
  Tombstone = tombstone
  MaxLsn = 3
  MaxBytes = 9
  MaxFrozen = 2
  Writers = {c1, c2}
  Flushers = {}
  Readers = {r1}
  MaxCrashes = 1
  Faults = {"dropped_call"}
INVARIANTS DurableBeforeVisible Visibility
PROPERTIES GetNeverGoesBack ImplementsKvStore
SYMMETRY Symmetry

SPECIFICATION FairSpec
CONSTANTS
  Keys = {k1}
  Values = {v1}
  Tombstone = tombstone
  MaxLsn = 3
  MaxBytes = 1
  MaxFrozen = 1
  Writers = {c1}
  Flushers = {f1}
  Readers = {}
  MaxCrashes = 1
  Faults = {}
INVARIANTS ReadInv FrozenHasOwner
PROPERTIES CallsReturn StallClears IndexNeverRegresses ImplementsKvStore

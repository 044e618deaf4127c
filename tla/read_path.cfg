SPECIFICATION Spec
CONSTANTS
  Keys = {1, 2, 3}
  v1 = v1
  Values = {v1}
  Tombstone = tombstone
  MaxLsn = 5
  Readers = {r1, r2}
  Batches <- MCBatches
  CacheKeys <- MCCacheKeys
  Configs <- MCConfigs
  MaxBytes = 2
  MaxTick = 12
  MaxFiles = 2
  MaxGets = 2
  ReadFaults = {"io_error"}
  Half = 16
  WordsPerBlock = 2
  WordBits = 4
  Salt <- MCSalt
  Hashed = {1, 2, 3}
  Hash <- MCHash
INVARIANTS TypeOK PruningIsExact AnswerIsNewest ResidentIsExact MapsAgree ReadPathInv ExactInv
PROPERTIES ImplementsLru
SYMMETRY Symmetry
CHECK_DEADLOCK FALSE

SPECIFICATION Spec
CONSTANTS
  reasoning = reasoning
  terminal = terminal
  t1 = t1
  Capability = {reasoning}
  Task = {t1}
  NominalRequirement <- MCNominalRequirement
  MaterialClass <- MCMaterialClass
  TaskRequires <- MCTaskRequires
  UnsafeIfLost <- MCUnsafeIfLost
  Volatile <- MCVolatile
  AggregationWindow = 1
  RecoveryStability = 1
  FlapSuppression = 1
  MaxAge = 1
  MaxEpisodes = 1
  MaxBatch = 2
  MaxBoots = 2
  MaxFailures = 1
INVARIANT TypeOK
INVARIANT LostWithinRequired
INVARIANT CriticalStopsTask
INVARIANT PhraseAtMostOnce
INVARIANT MonotonicComparable

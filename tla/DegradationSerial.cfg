SPECIFICATION SerialFairSpec
CONSTANTS
  reasoning = reasoning
  terminal = terminal
  t1 = t1
  Capability = {reasoning, terminal}
  Task = {}
  NominalRequirement <- MCBothRequired
  MaterialClass <- MCMaterialClass
  TaskRequires <- MCTaskRequires
  UnsafeIfLost <- MCUnsafeIfLost
  Volatile <- MCVolatile
  AggregationWindow = 1
  RecoveryStability = 1
  FlapSuppression = 1
  MaxAge = 1
  MaxEpisodes = 2
  MaxBatch = 1
  MaxBoots = 1
  MaxFailures = 0
INVARIANT AtMostOneActive
PROPERTY RecoveryIsReal
PROPERTY ReturnsToNominal

SPECIFICATION Spec
CONSTANTS
  Task = {t1}
  Tool = {a1}
  Request = {r1}
  None = None
  DistinctIds = FALSE
  MaxQueue = 1
  MaxEpisode = 2
  MaxBoot = 1
INVARIANT CompletedSettled
INVARIANT ConclusionsReferred
PROPERTY KeepsPromise
CHECK_DEADLOCK FALSE

SPECIFICATION Spec
CONSTANTS
  Task = {t1, t2}
  Tool = {a1}
  Request = {}
  None = None
  DistinctIds = TRUE
  MaxQueue = 1
  MaxEpisode = 0
  MaxBoot = 1
INVARIANT RunsOwnTask
CHECK_DEADLOCK FALSE

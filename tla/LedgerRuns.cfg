SPECIFICATION FairSpec
CONSTANTS
  Task = {t1, t2}
  Tool = {a1}
  Request = {}
  None = None
  DistinctIds = FALSE
  MaxQueue = 1
  MaxEpisode = 0
  MaxBoot = 1
INVARIANT RunsOwnTask
PROPERTY RunEnds
CHECK_DEADLOCK FALSE

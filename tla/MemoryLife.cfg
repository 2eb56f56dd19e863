SPECIFICATION FairSpec
CONSTANTS
  Task = {t1, t2}
  NoTask = NoTask
  Server = {s1}
  PageSize = 2
  EventLimit = 2
  RefLimit = 2
  MaxEvent = 3
  MaxBoot = 2
INVARIANT EpisodesPartition
INVARIANT UserRooted
INVARIANT PromptFits
PROPERTY Consolidated
CHECK_DEADLOCK FALSE

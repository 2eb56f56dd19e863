SPECIFICATION Spec
CONSTANTS
  Item <- Items
  NoItem = 0
  Threshold = 2
  Warm = 2
  Cold = 4
  HotKeep = 2
  WarmKeep = 3
  ColdKeep = 4
  Horizon = 8
  Busy = {1, 2, 3}
  MaxUpdate = 4
  MaxCrash = 1
INVARIANTS ItemsKept ExactHonest 
ACTION_CONSTRAINT FirstInOrder
CHECK_DEADLOCK FALSE

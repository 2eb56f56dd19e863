SPECIFICATION Spec
CONSTANTS
  Prompt = {p1, p2}
  Model = {m1, m2}
  Default = m1
  SelfMcp = TRUE
  AskConfirm = TRUE
  SlowDial = TRUE
  Registered = "absent"
  Ids = {1, 2, 3, 4, 5, 6, 7, 8, 9, 10, 11, 12}
  Sessions = {1, 2, 3, 4, 5}
  MaxTrouble = 1
  Resumable = 1
  MaxRoute = 1
INVARIANTS PromptAccounted WaitsOnRequest RouteKept SessionOpens
SYMMETRY Symmetry
CHECK_DEADLOCK FALSE

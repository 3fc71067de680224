CONSTANTS
  Request = {r1, r2}
  Sweeper = sweeper
  Nobody = nobody
  Ops = {"changeStatus", "extend", "pause", "resume", "assign", "autoAssign"}
  Targets = {"open", "extended", "closed"}
  NewDates = {1, 3}
  Grants = {1}
  PauseAllowed = TRUE
  MaxTime = 3
  MaxRequests = 3
  MaxCrashes = 1
SYMMETRY Operators
SPECIFICATION Spec
INVARIANTS CaseInv DeadlinesAgree TimelineNamesTheStatus
PROPERTIES FreshSavesFollowTheTable BreachIsEarned
CHECK_DEADLOCK FALSE

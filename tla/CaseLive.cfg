CONSTANTS
  Request = {r1, r2}
  Sweeper = sweeper
  Nobody = nobody
  Ops = {"changeStatus", "pause", "resume"}
  Targets = {"closed"}
  NewDates = {1}
  Grants = {2}
  PauseAllowed = TRUE
  MaxTime = 2
  MaxRequests = 3
  MaxCrashes = 0
SPECIFICATION FairSpec
PROPERTIES RequestsEnd LateCaseIsMarked
CHECK_DEADLOCK FALSE

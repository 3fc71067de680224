CONSTANTS
  Request = {r1}
  Sweeper = sweeper
  Nobody = nobody
  Ops = {"changeStatus", "extend", "pause", "resume", "assign"}
  Targets = {"open", "pending", "pending_approver", "extended", "closed", "overdue"}
  NewDates = {1, 3, 5}
  Grants = {1, 2}
  PauseAllowed = TRUE
  MaxTime = 4
  MaxRequests = 4
  MaxCrashes = 1
SPECIFICATION Spec
INVARIANTS ClosedCaseHasNoClockRunning LateMeansAfterTheDeadline
PROPERTIES ClosedIsFinal ExtensionMovesTheBarInFull
CHECK_DEADLOCK FALSE

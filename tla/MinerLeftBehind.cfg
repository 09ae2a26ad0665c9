CONSTANTS
  NumDevices = 1
  MaxBuilds = 2
  MaxSessions = 2
  MaxHeight = 3
  MaxWorks = 3
  Rewinds = FALSE
  LateWork = FALSE
SPECIFICATION Spec
INVARIANTS
  OldMinersGone
CHECK_DEADLOCK FALSE

CONSTANTS
  NumDevices = 1
  MaxBuilds = 2
  MaxSessions = 3
  MaxHeight = 3
  MaxWorks = 3
  Rewinds = TRUE
  LateWork = TRUE
SPECIFICATION Spec
INVARIANTS
  TypeOK
  ShareHeightIsWorkHeight
  PauseAgrees
CHECK_DEADLOCK FALSE
